---- MODULE Spec2Model ----
(***************************************************************************)
(* Configuration serialization of ionworks_schema: the to_config family    *)
(* (BaseSchema, Pipeline, DirectEntry, DirectEntryFunctionSchema,          *)
(* _DistributionBase, TransformBaseSchema), the value serializer and the   *)
(* element type classifier.                                                *)
(*                                                                         *)
(* Python values are tagged records.  A mapping is a sequence of           *)
(* <<key, value>> pairs with distinct keys, in insertion order, as a       *)
(* Python dict is.  Mutable containers (dict, list) carry the identity of  *)
(* the object in "id"; Fresh is the identity of a container the code       *)
(* creates during a call.  Numbers are held in hundredths (1.0 is 100).    *)
(***************************************************************************)
EXTENDS Integers, Sequences, FiniteSets, TLC

VARIABLES
    pipe,     \* the Pipeline instance (its fields elements, output_file, name, description)
    pipe_cfg, \* the document pipe.to_config() returned, NoDoc when the caller holds none
    inst,     \* a schema instance the caller built, NoInst before
    inst_cfg, \* the document inst.to_config() returned, NoDoc when the caller holds none
    _MATERIALS, \* library._MATERIALS, the module-level mapping of the stored materials
    found,    \* the request of the caller's last lookup, what it returned or raised
              \* and whether the caller has edited that since
    called,   \* the caller's last constructor call or assignment and what it raised
    serialized \* the value last given to _serialize_value and what the call
               \* returned or raised

vars == <<pipe, pipe_cfg, inst, inst_cfg, _MATERIALS, found, called, serialized>>

----------------------------------------------------------------------------
(* Python values *)

Fresh == 0

Null == [k |-> "null"]

Num(n) == [k |-> "num", v |-> n]

Str(s) == [k |-> "str", v |-> s]

Tuple(items) == [k |-> "tuple", v |-> items]

List(id, items) == [k |-> "list", id |-> id, v |-> items]

Dict(id, items) == [k |-> "dict", id |-> id, v |-> items]

Array(items) == [k |-> "array", v |-> items]

Obj(cls, fields) == [k |-> "obj", cls |-> cls, v |-> fields]

\* an object of another library: the module of its class and what the
\* capabilities it has return or raise when called
Duck(module, caps) == [k |-> "duck", module |-> module, caps |-> caps]

\* a pybamm model: its class name, its options and the default_* attributes
\* it has
PybammModel(class_name, options, defaults) ==
    [k |-> "pybamm", cls |-> class_name, options |-> options, defaults |-> defaults]

\* a raised exception
Raise(error, message) == [k |-> "raise", v |-> error, message |-> message]

NoDoc == [k |-> "nodoc"]

IsNull(x) == x.k = "null"

IsDict(x) == x.k = "dict"

IsObj(x) == x.k = "obj"

(* dict operations on the sequence of <<key, value>> pairs *)

Keys(items) == [i \in 1..Len(items) |-> items[i][1]]

KeySet(items) == {items[i][1] : i \in 1..Len(items)}

HasKey(items, key) == key \in KeySet(items)

Get(items, key) == items[CHOOSE i \in 1..Len(items) : items[i][1] = key][2]

\* d[key] = val: an existing key keeps its position, a new key is appended
DictSet(items, key, val) ==
    IF HasKey(items, key)
    THEN [i \in 1..Len(items) |-> IF items[i][1] = key THEN <<key, val>> ELSE items[i]]
    ELSE Append(items, <<key, val>>)

\* d.pop(key, None)
DictPop(items, key) == SelectSeq(items, LAMBDA p : p[1] # key)

\* Python ==: dicts compare by content whatever the insertion order and the
\* identity, lists by content whatever the identity
RECURSIVE PyEq(_, _)
PyEq(a, b) ==
    IF a.k # b.k THEN FALSE
    ELSE IF a.k = "dict"
    THEN /\ KeySet(a.v) = KeySet(b.v)
         /\ \A key \in KeySet(a.v) : PyEq(Get(a.v, key), Get(b.v, key))
    ELSE IF a.k \in {"list", "tuple", "array"}
    THEN /\ Len(a.v) = Len(b.v)
         /\ \A i \in 1..Len(a.v) : PyEq(a.v[i], b.v[i])
    ELSE IF a.k = "obj"
    THEN /\ a.cls = b.cls
         /\ KeySet(a.v) = KeySet(b.v)
         /\ \A key \in KeySet(a.v) : PyEq(Get(a.v, key), Get(b.v, key))
    ELSE a = b

\* bool(x) of the values a validator tests
Truthy(x) ==
    CASE x.k = "null" -> FALSE
      [] x.k \in {"dict", "list", "tuple"} -> Len(x.v) > 0
      [] x.k = "str" -> x.v # ""
      [] x.k = "num" -> x.v # 0
      [] OTHER -> TRUE

(* object identity: two references to one container see one content *)

\* the values a value holds directly
Children(x) ==
    IF x.k \in {"dict", "obj"} THEN [i \in 1..Len(x.v) |-> x.v[i][2]]
    ELSE IF x.k \in {"list", "tuple"} THEN x.v
    ELSE <<>>

\* the container of identity id reachable from x, NoDoc when there is none
RECURSIVE Find(_, _)
Find(x, id) ==
    IF x.k \in {"dict", "list"} /\ x.id = id THEN x
    ELSE LET kids == Children(x)
             hits == {i \in 1..Len(kids) : Find(kids[i], id) # NoDoc}
         IN  IF hits = {} THEN NoDoc
             ELSE Find(kids[CHOOSE i \in hits : \A j \in hits : i <= j], id)

\* x as it reads once doc was written: a container of x that is the same
\* object as a container of doc has the content that container has in doc
RECURSIVE Rebind(_, _)
Rebind(x, doc) ==
    IF x.k \in {"dict", "list"} /\ x.id # Fresh /\ Find(doc, x.id) # NoDoc
    THEN Find(doc, x.id)
    ELSE IF x.k \in {"dict", "obj"}
    THEN [x EXCEPT !.v = [i \in 1..Len(x.v) |-> <<x.v[i][1], Rebind(x.v[i][2], doc)>>]]
    ELSE IF x.k \in {"list", "tuple"}
    THEN [x EXCEPT !.v = [i \in 1..Len(x.v) |-> Rebind(x.v[i], doc)]]
    ELSE x

----------------------------------------------------------------------------
(* The schema classes: name, direct bases, declared fields in pydantic      *)
(* order (inherited fields first) with their defaults, the to_config the    *)
(* class defines itself ("inherit" when it defines none), its               *)
(* _exclude_fields and, for function schemas, __function_name__.            *)

Required == [k |-> "required"]

Class(name, bases, fields, conv, exclude, function_name) ==
    [name |-> name, bases |-> bases, fields |-> fields, conv |-> conv,
     exclude |-> exclude, function_name |-> function_name]

BaseModel == Class("BaseModel", <<>>, <<>>, "inherit", {}, "")

BaseSchema == Class("BaseSchema", <<"BaseModel">>, <<>>, "BaseSchema", {}, "")

Pipeline ==
    Class("Pipeline", <<"BaseSchema">>,
          << <<"elements", Null>>, <<"output_file", Null>>, <<"name", Null>>,
             <<"description", Null>> >>,
          "Pipeline", {}, "")

DirectEntry ==
    Class("DirectEntry", <<"BaseSchema">>,
          << <<"parameters", Required>>, <<"source", Null>> >>,
          "DirectEntry", {}, "")

InitialStateOfCharge ==
    Class("InitialStateOfCharge", <<"BaseSchema">>, << <<"value", Required>> >>,
          "InitialStateOfCharge", {}, "")

\* parameters or {}: the mapping the instance keeps is its own, and the one
\* its document hands out
PiecewiseInterpolation1D ==
    Class("PiecewiseInterpolation1D", <<"DirectEntry">>,
          << <<"parameters", Dict(43, <<>>)>>, <<"source", Null>>,
             <<"base_parameter_name", Required>>, <<"breakpoint_values", Required>>,
             <<"breakpoint_parameter_name", Required>>, <<"smoothing", Str("1e-4")>>,
             <<"formulation", Str("knots")>> >>,
          "inherit", {}, "")

PiecewiseInterpolation2D ==
    Class("PiecewiseInterpolation2D", <<"DirectEntry">>,
          << <<"parameters", Dict(44, <<>>)>>, <<"source", Null>>,
             <<"base_parameter_name", Required>>, <<"breakpoint1_values", Required>>,
             <<"breakpoint1_parameter_name", Required>>,
             <<"breakpoint2_values", Required>>,
             <<"breakpoint2_parameter_name", Required>>, <<"smoothing1", Str("1e-4")>>,
             <<"smoothing2", Str("1e-4")>>, <<"formulation", Str("knots")>> >>,
          "inherit", {}, "")

DirectEntryFunctionSchema ==
    Class("DirectEntryFunctionSchema", <<"BaseSchema">>, <<>>,
          "DirectEntryFunctionSchema", {}, "")

ArrheniusParticleDiffusivity ==
    Class("ArrheniusParticleDiffusivity", <<"DirectEntryFunctionSchema">>,
          << <<"electrode", Required>>, <<"direction", Str("")>>, <<"phase", Str("")>> >>,
          "inherit", {}, "arrhenius_particle_diffusivity")

AverageOcp ==
    Class("AverageOcp", <<"DirectEntryFunctionSchema">>,
          << <<"electrode", Required>>, <<"phase", Null>> >>,
          "inherit", {}, "average_ocp")

ZeroEntropicChange ==
    Class("ZeroEntropicChange", <<"DirectEntryFunctionSchema">>, <<>>,
          "inherit", {}, "zero_entropic_change")

ArrayDataFit ==
    Class("ArrayDataFit", <<"BaseSchema">>, << <<"objectives", Required>> >>,
          "inherit", {}, "")

DataFit ==
    Class("DataFit", <<"BaseSchema">>,
          << <<"objectives", Required>>, <<"source", Str("")>>, <<"parameters", Null>>,
             <<"cost", Null>>, <<"initial_guesses", Null>>, <<"optimizer", Null>>,
             <<"cost_logger", Null>>, <<"multistarts", Null>>, <<"num_workers", Null>>,
             <<"parallel", Null>>, <<"max_batch_size", Null>>,
             <<"initial_guess_sampler", Null>>, <<"priors", Null>>, <<"options", Null>> >>,
          "inherit", {}, "")

Validation ==
    Class("Validation", <<"BaseSchema">>,
          << <<"objectives", Required>>, <<"summary_stats", Null>> >>,
          "inherit", {}, "")

Calculation ==
    Class("Calculation", <<"BaseSchema">>, << <<"source", Required>> >>, "inherit", {}, "")

\* the user subclass the Calculation docstring gives as its example
CustomCalculation ==
    Class("CustomCalculation", <<"Calculation">>, << <<"source", Required>> >>,
          "inherit", {}, "")

AreaToSquareWidthHeight ==
    Class("AreaToSquareWidthHeight", <<"BaseSchema">>, <<>>, "inherit", {}, "")

ArrheniusDiffusivityFromMSMRData ==
    Class("ArrheniusDiffusivityFromMSMRData", <<"BaseSchema">>,
          << <<"electrode", Required>>, <<"data", Required>>, <<"direction", Str("")>>,
             <<"phase", Str("")>>, <<"options", Null>> >>,
          "inherit", {}, "")

Parameter ==
    Class("Parameter", <<"BaseSchema">>,
          << <<"name", Required>>, <<"initial_value", Null>>, <<"bounds", Null>>,
             <<"prior", Null>>, <<"normalize", Null>>, <<"check_bounds", Null>>,
             <<"check_initial_value", Null>>, <<"initial_guess_distribution", Null>> >>,
          "inherit", {"name"}, "")

Prior ==
    Class("Prior", <<"BaseSchema">>,
          << <<"name", Required>>, <<"distribution", Required>>,
             <<"regularizer_weight", Null>> >>,
          "inherit", {"name"}, "")

_DistributionBase ==
    Class("_DistributionBase", <<"BaseSchema">>, <<>>, "_DistributionBase", {}, "")

Distribution ==
    Class("Distribution", <<"BaseSchema">>, << <<"distribution", Null>> >>, "inherit", {}, "")

Normal ==
    Class("Normal", <<"_DistributionBase">>, << <<"mean", Required>>, <<"std", Required>> >>,
          "inherit", {}, "")

PointMass ==
    Class("PointMass", <<"_DistributionBase">>, << <<"value", Required>> >>, "inherit", {}, "")

Uniform ==
    Class("Uniform", <<"_DistributionBase">>, << <<"lb", Required>>, <<"ub", Required>> >>,
          "inherit", {}, "")

TransformBaseSchema ==
    Class("TransformBaseSchema", <<"BaseSchema">>, << <<"parameter", Required>> >>,
          "TransformBaseSchema", {}, "")

Log == Class("Log", <<"TransformBaseSchema">>, << <<"parameter", Required>> >>, "inherit", {}, "")

Exp == Class("Exp", <<"TransformBaseSchema">>, << <<"parameter", Required>> >>, "inherit", {}, "")

Negate ==
    Class("Negate", <<"TransformBaseSchema">>, << <<"parameter", Required>> >>, "inherit", {}, "")

BaseObjective ==
    Class("BaseObjective", <<"BaseSchema">>,
          << <<"options", Null>>, <<"callbacks", Null>>, <<"custom_parameters", Null>>,
             <<"cost", Null>>, <<"constraints", Null>>, <<"penalties", Null>>,
             <<"parameters", Null>> >>,
          "inherit", {}, "")

FittingObjective ==
    Class("FittingObjective", <<"BaseObjective">>,
          << <<"options", Null>>, <<"callbacks", Null>>, <<"custom_parameters", Null>>,
             <<"cost", Null>>, <<"constraints", Null>>, <<"penalties", Null>>,
             <<"parameters", Null>>, <<"data_input", Required>> >>,
          "inherit", {}, "")

SimulationObjective ==
    Class("SimulationObjective", <<"FittingObjective">>, FittingObjective.fields,
          "inherit", {}, "")

Pulse == Class("Pulse", <<"SimulationObjective">>, FittingObjective.fields, "inherit", {}, "")

ScipySolverConfig ==
    Class("ScipySolverConfig", <<"BaseSchema">>,
          << <<"type", Required>>, <<"method", Null>>, <<"rtol", Null>>, <<"atol", Null>>,
             <<"extra_options", Null>> >>,
          "inherit", {}, "")

Material ==
    Class("Material", <<"BaseModel">>,
          << <<"name", Required>>, <<"description", Null>>,
             <<"parameter_values", Dict(Fresh, <<>>)>> >>,
          "inherit", {}, "")

Classes ==
    {BaseModel, BaseSchema, Pipeline, DirectEntry, InitialStateOfCharge,
     PiecewiseInterpolation1D, PiecewiseInterpolation2D, DirectEntryFunctionSchema,
     ArrheniusParticleDiffusivity,
     AverageOcp, ZeroEntropicChange, ArrayDataFit, DataFit, Validation, Calculation,
     CustomCalculation, AreaToSquareWidthHeight, ArrheniusDiffusivityFromMSMRData,
     Parameter, Prior, _DistributionBase, Distribution, Normal, PointMass, Uniform,
     TransformBaseSchema, Log, Exp, Negate, BaseObjective, FittingObjective,
     SimulationObjective, Pulse, ScipySolverConfig, Material}

ClassOf(name) == CHOOSE c \in Classes : c.name = name

\* cls.__mro__ as the sequence of class names (every class here has one base)
RECURSIVE Mro(_)
Mro(name) ==
    LET c == ClassOf(name)
    IN  IF c.bases = <<>> THEN <<name>> ELSE <<name>> \o Mro(c.bases[1])

\* type(x).__name__ of a value
TypeName(x) == IF IsObj(x) THEN x.cls ELSE x.k

\* {c.__name__ for c in type(x).__mro__}
MroNames(x) ==
    IF IsObj(x) THEN {Mro(x.cls)[i] : i \in 1..Len(Mro(x.cls))} \cup {"object"}
    ELSE {x.k, "object"}

\* the to_config the method resolution order finds for an instance of the class
RECURSIVE Converter(_)
Converter(name) ==
    LET c == ClassOf(name)
    IN  IF c.conv # "inherit" THEN c.conv
        ELSE IF c.bases = <<>> THEN "none"
        ELSE Converter(c.bases[1])

\* hasattr(x, "to_config") and hasattr(x, "model_dump")
\* hasattr(x, name) of an object of another library
HasAttr(x, name) == x.k = "duck" /\ name \in DOMAIN x.caps

HasToConfig(x) == (IsObj(x) /\ Converter(x.cls) # "none") \/ HasAttr(x, "to_config")

HasModelDump(x) == (IsObj(x) /\ "BaseModel" \in MroNames(x)) \/ HasAttr(x, "model_dump")


----------------------------------------------------------------------------
(* Construction and assignment *)

\* pydantic's ValidationError; the message is that of the ValueError a model
\* validator raised, as a sequence of fragments
Invalid(message) == [k |-> "raise", v |-> "ValidationError", message |-> message]

ValidationError == Invalid(<<>>)

\* the TypeError of a call that does not fit the signature of __init__
TypeError == [k |-> "raise", v |-> "TypeError", message |-> <<>>]

IsRaise(x) == x.k = "raise"

\* variant: equal bounds pass
upper_bound_greater_than_lower_or_equal(self) ==
    LET bounds == Get(self.v, "bounds")
    IN  /\ ~IsNull(bounds)
        /\ bounds.v[1].v > bounds.v[2].v

\* Parameter.upper_bound_greater_than_lower: TRUE when the validator raises
upper_bound_greater_than_lower(self) ==
    LET bounds == Get(self.v, "bounds")
    IN  /\ ~IsNull(bounds)
        /\ bounds.v[1].v >= bounds.v[2].v

\* variant: parameters and priors may both be given
validate_parameters_or_priors_either(self) ==
    LET parameters == Get(self.v, "parameters")
        priors == Get(self.v, "priors")
    IN  ~Truthy(parameters) /\ ~Truthy(priors)

\* DataFit.validate_parameters_or_priors: TRUE when the validator raises
validate_parameters_or_priors(self) ==
    LET parameters == Get(self.v, "parameters")
        priors == Get(self.v, "priors")
    IN  \/ ~Truthy(parameters) /\ ~Truthy(priors)
        \/ Truthy(parameters) /\ Truthy(priors)

\* type: Literal["ScipySolver"]: TRUE when the field validation raises
ScipySolverConfig_type(self) == Get(self.v, "type") # Str("ScipySolver")

\* the validation that follows construction and assignment: the Literal field
\* and the model validators (mode="after") of the instance's class
Validate(self) ==
    IF self.cls = "ScipySolverConfig" /\ ScipySolverConfig_type(self) THEN ValidationError
    ELSE IF self.cls = "Parameter" /\ upper_bound_greater_than_lower(self)
    THEN Invalid(<<"Bounds must be strictly increasing">>)
    ELSE IF self.cls = "DataFit" /\ validate_parameters_or_priors(self)
    THEN IF ~Truthy(Get(self.v, "parameters"))
         THEN Invalid(<<"Either 'parameters' or 'priors'", " must be specified">>)
         ELSE Invalid(<<"Only one of", " 'parameters' or 'priors' ", "can be specified">>)
    ELSE self

\* model_config = ConfigDict(extra="forbid") of the solver configs
ForbidsExtra(cls) == cls = "ScipySolverConfig"

\* the classes whose __init__, own or inherited, takes the declared fields
\* and no **kwargs
StrictInit ==
    {"Pipeline", "Validation", "Prior", "Distribution", "Normal", "PointMass", "Uniform",
     "Exp", "Log", "Negate", "Parameter", "InitialStateOfCharge", "BaseObjective",
     "FittingObjective", "SimulationObjective", "Pulse", "ArrayDataFit", "DataFit",
     "ArrheniusDiffusivityFromMSMRData", "Calculation", "CustomCalculation"}

\* cls(**kwargs): a call that does not fit the signature of __init__ is a
\* TypeError; then the declared fields in declaration order, a missing one at
\* its default, then the extra fields (extra="allow") in keyword order
New(cls, kwargs) ==
    LET c == ClassOf(cls)
        declared == [i \in 1..Len(c.fields) |->
                        <<c.fields[i][1],
                          IF HasKey(kwargs, c.fields[i][1])
                          THEN Get(kwargs, c.fields[i][1])
                          ELSE c.fields[i][2]>>]
        extras == SelectSeq(kwargs, LAMBDA p : ~HasKey(c.fields, p[1]))
    IN  IF /\ cls \in StrictInit
           /\ \/ extras # <<>>
              \/ \E i \in 1..Len(declared) : declared[i][2] = Required
        THEN TypeError
        ELSE IF \E i \in 1..Len(declared) : declared[i][2] = Required
        THEN ValidationError
        ELSE IF ForbidsExtra(cls) /\ extras # <<>> THEN ValidationError
        ELSE Validate(Obj(cls, declared \o extras))

\* self.key = value under validate_assignment=True: the field is set (a new
\* extra field is added last) and the model validators run again
SetAttr(self, key, value) ==
    IF ForbidsExtra(self.cls) /\ ~HasKey(self.v, key) THEN ValidationError
    ELSE Validate(Obj(self.cls, DictSet(self.v, key, value)))

\* the instance after the statement self.key = value: a value the field
\* validation rejects is not written; the model validators (mode="after") run
\* on the instance once the field is written, so when one of them raises the
\* instance keeps the new value
AfterSetAttr(self, key, value) ==
    LET written == Obj(self.cls, DictSet(self.v, key, value))
    IN  IF ForbidsExtra(self.cls) /\ ~HasKey(self.v, key) THEN self
        ELSE IF self.cls = "ScipySolverConfig" /\ ScipySolverConfig_type(written) THEN self
        ELSE written

----------------------------------------------------------------------------
(* Serialization *)

\* BaseSchema._field_mappings
_field_mappings == << <<"data_input", "data">> >>

\* the class names BaseSchema.to_config does not tag with "type"
Untagged ==
    {"Pipeline", "DataFit", "ArrayDataFit", "Parameter", "DirectEntry", "Validation",
     "Calculation"}

\* variant: no field is excluded
_exclude_fields_none(self) == {}

\* self._exclude_fields: the class attribute the method resolution order finds
_exclude_fields(self) == ClassOf(self.cls).exclude

\* variant: the calculation tag is given by the own class name only
_get_element_type_own_name(comp) ==
    LET mro_names == MroNames(comp)
    IN  IF "DirectEntry" \in mro_names THEN Str("entry")
        ELSE IF "DirectEntryFunctionSchema" \in mro_names THEN Str("entry")
        ELSE IF TypeName(comp) \in {"DataFit", "ArrayDataFit"} THEN Str("data_fit")
        ELSE IF TypeName(comp) = "Validation" THEN Str("validation")
        ELSE IF TypeName(comp) = "Calculation" THEN Str("calculation")
        ELSE Null

\* base._get_element_type
_get_element_type(comp) ==
    LET mro_names == MroNames(comp)
    IN  IF "DirectEntry" \in mro_names THEN Str("entry")
        ELSE IF "DirectEntryFunctionSchema" \in mro_names THEN Str("entry")
        ELSE IF TypeName(comp) \in {"DataFit", "ArrayDataFit"} THEN Str("data_fit")
        ELSE IF TypeName(comp) = "Validation" THEN Str("validation")
        ELSE IF "Calculation" \in mro_names THEN Str("calculation")
        ELSE Null

RECURSIVE to_config(_), _serialize_value(_), model_dump(_)

\* value.model_dump(exclude_none=True): the non-null fields, nested models dumped
model_dump(value) ==
    IF value.k = "duck" THEN value.caps.model_dump
    ELSE IF IsObj(value)
    THEN LET kept == SelectSeq(value.v, LAMBDA p : ~IsNull(p[2]))
         IN  Dict(Fresh, [i \in 1..Len(kept) |-> <<kept[i][1], model_dump(kept[i][2])>>])
    ELSE IF value.k = "dict"
    THEN Dict(Fresh, [i \in 1..Len(value.v) |-> <<value.v[i][1], model_dump(value.v[i][2])>>])
    ELSE IF value.k \in {"list", "tuple"}
    THEN [value EXCEPT !.v = [i \in 1..Len(value.v) |-> model_dump(value.v[i])]]
    ELSE value

\* the names of pybamm.lithium_ion the model classes of the demo come from
lithium_ion == {"SPM", "SPMe", "DFN", "MSMR"}

\* what pybamm's Serialise returns for a part of a custom model
Serialised(part, model) == [k |-> "serialised", part |-> part, of |-> model.cls]

\* base._serialize_pybamm_model
_serialize_pybamm_model(model) ==
    IF model.cls \in lithium_ion
    THEN LET options == IF IsNull(model.options) THEN <<>>
                        ELSE SelectSeq(model.options.v, LAMBDA p : ~IsNull(p[2]))
         IN  Dict(Fresh, << <<"type", Str(model.cls)>> >> \o
                         (IF options # <<>> THEN << <<"options", Dict(Fresh, options)>> >>
                          ELSE <<>>))
    ELSE Dict(Fresh,
              << <<"type", Str("custom")>>, <<"model", Serialised("model", model)>> >> \o
              (IF "default_geometry" \in model.defaults
               THEN << <<"geometry", Serialised("geometry", model)>> >> ELSE <<>>) \o
              (IF "default_var_pts" \in model.defaults
               THEN << <<"var_pts", Serialised("var_pts", model)>> >> ELSE <<>>) \o
              (IF "default_spatial_methods" \in model.defaults
               THEN << <<"spatial_methods", Serialised("spatial_methods", model)>> >>
               ELSE <<>>) \o
              (IF "default_submesh_types" \in model.defaults
               THEN << <<"submesh_types", Serialised("submesh_types", model)>> >>
               ELSE <<>>))

\* the tabular branch of _serialize_value: the orientation the module name
\* of the class selects, else orient="list" and, on a TypeError, as_series=False
to_dict(value) ==
    IF \E i \in 1..Len(value.module) : value.module[i] = "pandas"
    THEN value.caps.to_dict.orient
    ELSE IF \E i \in 1..Len(value.module) : value.module[i] = "polars"
    THEN value.caps.to_dict.as_series
    ELSE IF IsRaise(value.caps.to_dict.orient) /\ value.caps.to_dict.orient.v = "TypeError"
    THEN value.caps.to_dict.as_series
    ELSE value.caps.to_dict.orient

\* the first exception among the results, else the results
Propagate(results, made) ==
    IF \E i \in 1..Len(results) : IsRaise(results[i])
    THEN results[CHOOSE i \in 1..Len(results) :
                     /\ IsRaise(results[i])
                     /\ \A j \in 1..(i - 1) : ~IsRaise(results[j])]
    ELSE made

\* variant: the generic dump is tried before the to_config capability
_serialize_value_dump_first(value) ==
    IF IsNull(value) THEN Null
    ELSE IF IsObj(value) /\ "BaseSchema" \in MroNames(value) THEN to_config(value)
    ELSE IF value.k = "dict"
    THEN LET results == [i \in 1..Len(value.v) |-> _serialize_value(value.v[i][2])]
         IN  Propagate(results,
                       Dict(Fresh, [i \in 1..Len(value.v) |-> <<value.v[i][1], results[i]>>]))
    ELSE IF value.k \in {"list", "tuple"}
    THEN LET results == [i \in 1..Len(value.v) |-> _serialize_value(value.v[i])]
         IN  Propagate(results, List(Fresh, results))
    ELSE IF HasModelDump(value) THEN model_dump(value)
    ELSE IF HasToConfig(value) THEN to_config(value)
    ELSE IF value.k = "pybamm" THEN _serialize_pybamm_model(value)
    ELSE IF HasAttr(value, "to_dict") /\ HasAttr(value, "columns") THEN to_dict(value)
    ELSE IF value.k \in {"num", "str", "bool"} THEN value
    ELSE IF value.k = "array" THEN List(Fresh, value.v)
    ELSE IF HasAttr(value, "tolist") THEN value.caps.tolist
    ELSE value

\* base._serialize_value
_serialize_value(value) ==
    IF IsNull(value) THEN Null
    ELSE IF IsObj(value) /\ "BaseSchema" \in MroNames(value) THEN to_config(value)
    ELSE IF value.k = "dict"
    THEN LET results == [i \in 1..Len(value.v) |-> _serialize_value(value.v[i][2])]
         IN  Propagate(results,
                       Dict(Fresh, [i \in 1..Len(value.v) |-> <<value.v[i][1], results[i]>>]))
    ELSE IF value.k \in {"list", "tuple"}
    THEN LET results == [i \in 1..Len(value.v) |-> _serialize_value(value.v[i])]
         IN  Propagate(results, List(Fresh, results))
    ELSE IF HasToConfig(value) THEN to_config(value)
    ELSE IF HasModelDump(value) THEN model_dump(value)
    ELSE IF value.k = "pybamm" THEN _serialize_pybamm_model(value)
    ELSE IF HasAttr(value, "to_dict") /\ HasAttr(value, "columns") THEN to_dict(value)
    ELSE IF value.k \in {"num", "str", "bool"} THEN value
    ELSE IF value.k = "array" THEN List(Fresh, value.v)
    ELSE IF HasAttr(value, "tolist") THEN value.caps.tolist
    ELSE value

\* variant: the loop writes null fields too
RECURSIVE BaseSchema_fields_keep_null(_, _, _)
BaseSchema_fields_keep_null(self, i, config) ==
    IF i > Len(self.v) THEN config
    ELSE LET key == self.v[i][1]
             value == self.v[i][2]
             output_key == IF HasKey(_field_mappings, key)
                           THEN Get(_field_mappings, key) ELSE key
         IN  IF key \in _exclude_fields(self)
             THEN BaseSchema_fields_keep_null(self, i + 1, config)
             ELSE BaseSchema_fields_keep_null(self, i + 1,
                      DictSet(config, output_key, _serialize_value(value)))

\* the loop of BaseSchema.to_config over the fields from the i-th on
RECURSIVE BaseSchema_fields(_, _, _)
BaseSchema_fields(self, i, config) ==
    IF i > Len(self.v) THEN config
    ELSE LET key == self.v[i][1]
             value == self.v[i][2]
             output_key == IF HasKey(_field_mappings, key)
                           THEN Get(_field_mappings, key) ELSE key
         IN  IF IsNull(value) THEN BaseSchema_fields(self, i + 1, config)
             ELSE IF key \in _exclude_fields(self) THEN BaseSchema_fields(self, i + 1, config)
             ELSE BaseSchema_fields(self, i + 1,
                                    DictSet(config, output_key, _serialize_value(value)))

\* variant: the exemption from the type tag is inherited by subclasses
BaseSchema_to_config_by_ancestry(self) ==
    LET config == BaseSchema_fields(self, 1, <<>>)
        cls_name == self.cls
    IN  IF MroNames(self) \cap Untagged = {}
        THEN Dict(Fresh, DictSet(config, "type", Str(cls_name)))
        ELSE Dict(Fresh, config)

\* BaseSchema.to_config
BaseSchema_to_config(self) ==
    LET config == BaseSchema_fields(self, 1, <<>>)
        cls_name == self.cls
    IN  IF cls_name \notin Untagged
        THEN Dict(Fresh, DictSet(config, "type", Str(cls_name)))
        ELSE Dict(Fresh, config)

\* variant: the source is written when it is set
DirectEntry_to_config_with_source(self) ==
    LET config == << <<"element_type", Str("entry")>>,
                     <<"values", Get(self.v, "parameters")>> >>
    IN  IF IsNull(Get(self.v, "source")) THEN Dict(Fresh, config)
        ELSE Dict(Fresh, DictSet(config, "source", Get(self.v, "source")))

\* DirectEntry.to_config
DirectEntry_to_config(self) ==
    Dict(Fresh, << <<"element_type", Str("entry")>>,
                   <<"values", Get(self.v, "parameters")>> >>)

\* InitialStateOfCharge.to_config
InitialStateOfCharge_to_config(self) ==
    Dict(Fresh, << <<"element_type", Str("entry")>>,
                   <<"values", Dict(Fresh, << <<"Initial SOC [%]", Get(self.v, "value")>> >>)>> >>)

\* variant: the loop writes empty strings too
RECURSIVE FunctionSchema_fields_keep_empty(_, _, _)
FunctionSchema_fields_keep_empty(data, i, out) ==
    IF i > Len(data) THEN out
    ELSE LET key == data[i][1]
             v == data[i][2]
         IN  IF key = "name" THEN FunctionSchema_fields_keep_empty(data, i + 1, out)
             ELSE FunctionSchema_fields_keep_empty(data, i + 1, DictSet(out, key, v))

\* the loop of DirectEntryFunctionSchema.to_config over the dumped fields
RECURSIVE FunctionSchema_fields(_, _, _)
FunctionSchema_fields(data, i, out) ==
    IF i > Len(data) THEN out
    ELSE LET key == data[i][1]
             v == data[i][2]
         IN  IF key = "name" \/ v = Str("") THEN FunctionSchema_fields(data, i + 1, out)
             ELSE FunctionSchema_fields(data, i + 1, DictSet(out, key, v))

\* variant: the named-reference converter adds the class-name tag as well
DirectEntryFunctionSchema_to_config_typed(self) ==
    LET data == model_dump(self).v
        name == ClassOf(self.cls).function_name
    IN  Dict(Fresh, DictSet(FunctionSchema_fields(data, 1, << <<"name", Str(name)>> >>),
                            "type", Str(self.cls)))

\* DirectEntryFunctionSchema.to_config
DirectEntryFunctionSchema_to_config(self) ==
    LET data == model_dump(self).v
        name == ClassOf(self.cls).function_name
    IN  Dict(Fresh, FunctionSchema_fields(data, 1, << <<"name", Str(name)>> >>))

\* the loop of _DistributionBase.to_config over the fields from the i-th on
RECURSIVE Distribution_fields(_, _, _)
Distribution_fields(self, i, config) ==
    IF i > Len(self.v) THEN config
    ELSE LET key == self.v[i][1]
             value == self.v[i][2]
         IN  IF IsNull(value) THEN Distribution_fields(self, i + 1, config)
             ELSE IF HasToConfig(value)
             THEN Distribution_fields(self, i + 1, DictSet(config, key, to_config(value)))
             ELSE IF value.k = "array"
             THEN Distribution_fields(self, i + 1, DictSet(config, key, List(Fresh, value.v)))
             ELSE Distribution_fields(self, i + 1, DictSet(config, key, value))

\* variant: the distribution converter adds the type tag as well
_DistributionBase_to_config_typed(self) ==
    Dict(Fresh, DictSet(DictSet(Distribution_fields(self, 1, <<>>),
                                "distribution", Str(self.cls)),
                        "type", Str(self.cls)))

\* _DistributionBase.to_config
_DistributionBase_to_config(self) ==
    Dict(Fresh, DictSet(Distribution_fields(self, 1, <<>>), "distribution", Str(self.cls)))

\* variant: the transform pops and tags a raw mapping parameter itself, not a copy
TransformBaseSchema_to_config_in_place(self) ==
    LET param == Get(self.v, "parameter")
        inner == IF HasToConfig(param) THEN to_config(param)
                 ELSE IF IsDict(param) THEN param ELSE Dict(Fresh, <<>>)
    IN  [inner EXCEPT !.v = DictSet(DictPop(DictPop(@, "type"), "parameter"),
                                    "transform", Str(self.cls))]

\* variant: the "type" tag of the wrapped parameter is kept
TransformBaseSchema_to_config_keep_type(self) ==
    LET param == Get(self.v, "parameter")
        inner == IF HasToConfig(param) THEN to_config(param).v
                 ELSE IF IsDict(param) THEN param.v ELSE <<>>
    IN  Dict(Fresh, DictSet(DictPop(inner, "parameter"), "transform", Str(self.cls)))

\* TransformBaseSchema.to_config
TransformBaseSchema_to_config(self) ==
    LET param == Get(self.v, "parameter")
        inner == IF HasToConfig(param) THEN to_config(param).v
                 ELSE IF IsDict(param) THEN param.v ELSE <<>>
    IN  Dict(Fresh, DictSet(DictPop(DictPop(inner, "type"), "parameter"),
                            "transform", Str(self.cls)))

\* variant: a raw mapping element is put into the document itself, not a copy
RECURSIVE Pipeline_elements_aliasing(_, _, _)
Pipeline_elements_aliasing(items, i, elements) ==
    IF i > Len(items) THEN elements
    ELSE LET name == items[i][1]
             comp == items[i][2]
             elem_config == IF HasToConfig(comp) THEN to_config(comp)
                            ELSE IF HasModelDump(comp) THEN model_dump(comp)
                            ELSE IF IsDict(comp) THEN comp
                            ELSE Dict(Fresh, <<>>)
             elem_type == _get_element_type(comp)
             tagged == IF ~IsNull(elem_type)
                       THEN [elem_config EXCEPT !.v = DictSet(@, "element_type", elem_type)]
                       ELSE elem_config
         IN  Pipeline_elements_aliasing(items, i + 1, DictSet(elements, name, tagged))

\* the loop of Pipeline.to_config over the elements from the i-th on
RECURSIVE Pipeline_elements(_, _, _)
Pipeline_elements(items, i, elements) ==
    IF i > Len(items) THEN elements
    ELSE LET name == items[i][1]
             comp == items[i][2]
             elem_config == IF HasToConfig(comp) THEN to_config(comp)
                            ELSE IF HasModelDump(comp) THEN model_dump(comp)
                            ELSE IF IsDict(comp) THEN Dict(Fresh, comp.v)
                            ELSE Dict(Fresh, <<>>)
             elem_type == _get_element_type(comp)
             tagged == IF ~IsNull(elem_type)
                       THEN [elem_config EXCEPT !.v = DictSet(@, "element_type", elem_type)]
                       ELSE elem_config
         IN  Pipeline_elements(items, i + 1, DictSet(elements, name, tagged))

\* variant: the metadata fields are added whether or not they are None
Pipeline_metadata_always(self, config) ==
    DictSet(DictSet(DictSet(config, "output_file", Get(self.v, "output_file")),
                    "name", Get(self.v, "name")),
            "description", Get(self.v, "description"))

\* the three metadata fields Pipeline.to_config adds when they are not None
Pipeline_metadata(self, config) ==
    LET c1 == IF ~IsNull(Get(self.v, "output_file"))
              THEN DictSet(config, "output_file", Get(self.v, "output_file")) ELSE config
        c2 == IF ~IsNull(Get(self.v, "name"))
              THEN DictSet(c1, "name", Get(self.v, "name")) ELSE c1
    IN  IF ~IsNull(Get(self.v, "description"))
        THEN DictSet(c2, "description", Get(self.v, "description")) ELSE c2

\* variant: the elements are written last first
Pipeline_to_config_reversed(self) ==
    LET elements == Get(self.v, "elements")
        items == IF Truthy(elements)
                 THEN [i \in 1..Len(elements.v) |-> elements.v[Len(elements.v) + 1 - i]]
                 ELSE <<>>
        config == << <<"elements", Dict(Fresh, Pipeline_elements(items, 1, <<>>))>> >>
    IN  Dict(Fresh, Pipeline_metadata(self, config))

\* Pipeline.to_config
Pipeline_to_config(self) ==
    LET elements == Get(self.v, "elements")
        items == IF Truthy(elements) THEN elements.v ELSE <<>>
        config == << <<"elements", Dict(Fresh, Pipeline_elements(items, 1, <<>>))>> >>
    IN  Dict(Fresh, Pipeline_metadata(self, config))

\* self.to_config(): the method the instance's class resolves to
to_config(self) ==
    IF self.k = "duck" THEN self.caps.to_config
    ELSE
    LET conv == Converter(self.cls)
    IN  CASE conv = "Pipeline" -> Pipeline_to_config(self)
          [] conv = "DirectEntry" -> DirectEntry_to_config(self)
          [] conv = "InitialStateOfCharge" -> InitialStateOfCharge_to_config(self)
          [] conv = "DirectEntryFunctionSchema" -> DirectEntryFunctionSchema_to_config(self)
          [] conv = "_DistributionBase" -> _DistributionBase_to_config(self)
          [] conv = "TransformBaseSchema" -> TransformBaseSchema_to_config(self)
          [] OTHER -> BaseSchema_to_config(self)


----------------------------------------------------------------------------
(* The values the caller builds: the elements put into a Pipeline and the   *)
(* schema instances converted on their own.  Each container the caller      *)
(* creates has its own identity.                                            *)

Kw(key, value) == <<key, value>>

AreaParameters == Dict(1, << <<"Electrode area [m2]", Num(1)>> >>)

AnObjective == New("FittingObjective", << Kw("data_input", Str("data.csv")) >>)

AParameter ==
    New("Parameter", << Kw("name", Str("x")), Kw("initial_value", Num(100)),
                        Kw("bounds", Tuple(<<Num(0), Num(200)>>)) >>)

ANormal == New("Normal", << Kw("mean", Num(0)), Kw("std", Num(100)) >>)

RawTagged == Dict(2, << <<"element_type", Str("calculation")>>, <<"type", Str("CellMass")>> >>)

RawUntagged == Dict(3, << <<"name", Str("one_cm2_cell")>> >>)

\* the elements a Pipeline is given
PipelineElements ==
    { New("DirectEntry", << Kw("parameters", AreaParameters) >>),
      New("PiecewiseInterpolation1D",
          << Kw("base_parameter_name", Str("D")),
             Kw("breakpoint_values", List(4, <<Num(0), Num(50), Num(100)>>)),
             Kw("breakpoint_parameter_name", Str("SOC")) >>),
      New("AverageOcp", << Kw("electrode", Str("negative")) >>),
      New("DataFit", << Kw("objectives", Dict(5, << <<"fit1", AnObjective>> >>)),
                        Kw("parameters", Dict(6, << <<"x", Num(100)>> >>)) >>),
      New("ArrayDataFit", << Kw("objectives", Dict(7, << <<"T1", AnObjective>> >>)) >>),
      New("Validation", << Kw("objectives", Dict(8, <<>>)) >>),
      New("Calculation", << Kw("source", Str("custom method")) >>),
      New("CustomCalculation", << Kw("source", Str("Custom method")) >>),
      New("AreaToSquareWidthHeight", <<>>),
      New("InitialStateOfCharge", << Kw("value", Num(5000)) >>),
      New("Material", << Kw("name", Str("NMC - Verbrugge 2017")),
                         Kw("parameter_values", Dict(9, << <<"U0", List(10, <<Num(395)>>)>> >>)) >>),
      RawTagged,
      RawUntagged,
      Str("not an element") }

ElementNames == {"e1", "e2", "e3"}

MaxElements == 2

MetadataValues ==
    [output_file |-> {Null, Str("config.json")},
     name |-> {Null, Str("demo")},
     description |-> {Null, Str("a pipeline")}]

EmptyPipeline == New("Pipeline", <<>>)

NoInst == [k |-> "noinst"]

\* before the first call of _serialize_value
NoSerialized == [value |-> Null, result |-> NoDoc]

\* before the caller's first call
NoCall == [op |-> "none", name |-> "", args |-> <<>>, raised |-> Null]

\* before the caller's first lookup
NoFound == [request |-> <<"none", "">>, result |-> Null, edited |-> FALSE]

\* the constructor calls of the schema machine
SchemaCalls ==
    { <<"Parameter", << Kw("name", Str("x")), Kw("initial_value", Num(100)),
                        Kw("bounds", Tuple(<<Num(0), Num(200)>>)) >> >>,
      <<"Parameter", << Kw("name", Str("y")), Kw("initial_value", Num(100)) >> >>,
      <<"Parameter", << Kw("name", Str("x")), Kw("prior", ANormal) >> >>,
      <<"Prior", << Kw("name", Str("x")), Kw("distribution", ANormal) >> >>,
      <<"Prior", << Kw("name", Str("x")), Kw("distribution", ANormal),
                    Kw("regularizer_weight", Num(100)) >> >>,
      <<"Distribution", <<>> >>,
      <<"Distribution", << Kw("distribution", ANormal) >> >>,
      <<"Normal", << Kw("mean", Num(0)), Kw("std", Num(100)) >> >>,
      <<"Normal", << Kw("mean", Null), Kw("std", Num(100)) >> >>,
      <<"PointMass", << Kw("value", Array(<<Num(100), Num(200)>>)) >> >>,
      <<"PointMass", << Kw("value", List(31, <<Array(<<Num(100)>>), ANormal>>)) >> >>,
      <<"Uniform", << Kw("lb", Num(0)), Kw("ub", Num(100)) >> >>,
      <<"Log", << Kw("parameter", New("Parameter", << Kw("name", Str("y")),
                                                     Kw("initial_value", Num(100)) >>)) >> >>,
      <<"Exp", << Kw("parameter", New("Log", << Kw("parameter", AParameter) >>)) >> >>,
      <<"Negate", << Kw("parameter", ANormal) >> >>,
      <<"Negate", << Kw("parameter",
                        SetAttr(New("Parameter", << Kw("name", Str("x")),
                                                    Kw("initial_value", Num(100)) >>),
                                "type", Str("custom"))) >> >>,
      <<"Log", << Kw("parameter", Dict(17, << <<"type", Str("Parameter")>>,
                                              <<"initial_value", Num(100)>> >>)) >> >>,
      <<"BaseObjective", <<>> >>,
      <<"FittingObjective", << Kw("data_input", Str("path/to/data.csv")) >> >>,
      <<"FittingObjective", << Kw("data_input", Str("data.csv")),
                               Kw("options", Dict(11, << <<"model", Null>> >>)),
                               Kw("custom_parameters", Dict(12, << <<"x", Num(100)>> >>)) >> >>,
      <<"FittingObjective", << Kw("data_input", Dict(13, << <<"data", AParameter>> >>)) >> >>,
      <<"SimulationObjective", << Kw("data_input", Str("data.csv")) >> >>,
      <<"Pulse", << Kw("data_input", Str("pulse_data.csv")) >> >>,
      <<"BaseSchema", << Kw("data_input", Str("a.csv")), Kw("data", Str("b.csv")) >> >>,
      <<"BaseSchema", << Kw("data", Str("b.csv")), Kw("data_input", Str("a.csv")) >> >>,
      <<"AreaToSquareWidthHeight", <<>> >>,
      <<"ArrheniusDiffusivityFromMSMRData",
        << Kw("electrode", Str("positive")),
           Kw("data", Dict(14, << <<"Stoichiometry", List(15, <<Num(10), Num(50)>>)>> >>)) >> >>,
      <<"Calculation", << Kw("source", Str("custom method")) >> >>,
      <<"CustomCalculation", << Kw("source", Str("Custom method")) >> >>,
      <<"DataFit", << Kw("objectives", Dict(5, << <<"obj1", AnObjective>> >>)),
                      Kw("parameters", Dict(6, << <<"p", AParameter>> >>)) >> >>,
      <<"ArrayDataFit", << Kw("objectives", Dict(7, << <<"T1", AnObjective>> >>)) >> >>,
      <<"Validation", << Kw("objectives", Dict(8, <<>>)) >> >>,
      <<"DirectEntry", << Kw("parameters", AreaParameters), Kw("source", Str("literature")) >> >>,
      <<"DirectEntry", << Kw("parameters",
                             Dict(18, << <<"Diffusivity [m2.s-1]", Array(<<Num(100), Num(200)>>)>> >>)) >> >>,
      <<"InitialStateOfCharge", << Kw("value", Num(5000)) >> >>,
      <<"AverageOcp", << Kw("electrode", Str("positive")), Kw("phase", Null) >> >>,
      <<"PiecewiseInterpolation1D",
        << Kw("base_parameter_name", Str("Particle diffusion time [s]")),
           Kw("breakpoint_values", List(40, <<Num(0), Num(50), Num(100)>>)),
           Kw("breakpoint_parameter_name", Str("SOC")) >> >>,
      <<"PiecewiseInterpolation2D",
        << Kw("base_parameter_name", Str("D [m2/s]")),
           Kw("breakpoint1_values", List(41, <<Num(0), Num(100)>>)),
           Kw("breakpoint1_parameter_name", Str("SOC")),
           Kw("breakpoint2_values", List(42, <<Num(29815), Num(31815)>>)),
           Kw("breakpoint2_parameter_name", Str("Temperature [K]")) >> >>,
      <<"ArrheniusParticleDiffusivity", << Kw("electrode", Str("negative")) >> >>,
      <<"ArrheniusParticleDiffusivity", << Kw("electrode", Str("negative")),
                                           Kw("direction", Str("")),
                                           Kw("phase", Str("primary")) >> >>,
      <<"ZeroEntropicChange", <<>> >>,
      <<"ScipySolverConfig", << Kw("type", Str("ScipySolver")) >> >>,
      <<"Pipeline", << Kw("elements", Dict(16, << <<"e1", AnObjective>> >>)),
                       Kw("name", Str("demo")) >> >>,
      <<"Pipeline", << Kw("output_file", Str("config.json")) >> >>,
      <<"Pipeline", << Kw("elements",
                          Dict(16, << <<"e1", New("DirectEntry", << Kw("parameters", AreaParameters) >>)>>,
                                      <<"e2", RawTagged>>,
                                      <<"e3", New("Exp", << Kw("parameter", AParameter) >>)>> >>)) >> >> }

\* the assignments inst.key = value of the schema machine
SchemaAssignments ==
    { <<"name", Str("z")>>, <<"initial_value", Null>>, <<"data_input", Str("new.csv")>>,
      <<"type", Str("custom")>> }

----------------------------------------------------------------------------
(* The registries and the library: the function-entry names, the function   *)
(* schema classes, the package attributes and the stored materials.         *)
(* Library numbers are held in millionths.                                  *)

\* registry.FUNCTION_ENTRY_NAMES
FUNCTION_ENTRY_NAMES ==
    << "arrhenius_butler_volmer_exchange_current_density",
       "arrhenius_electrolyte_conductivity", "arrhenius_electrolyte_diffusivity",
       "arrhenius_particle_diffusivity", "average_ocp", "bruggeman",
       "constant_electrolyte", "from_json", "landesfeind_electrolyte",
       "li_plating_defaults", "lithium_metal_anode", "mechanical_degradation_defaults",
       "nyman_electrolyte", "one_cm2_cell", "sei_defaults", "spm_defaults",
       "standard_defaults", "temperatures", "zero_activation_energy",
       "zero_entropic_change" >>

\* function_schemas.FUNCTION_SCHEMAS: name -> schema class
FUNCTION_SCHEMAS ==
    << <<"arrhenius_butler_volmer_exchange_current_density",
         "ArrheniusButlerVolmerExchangeCurrentDensity">>,
       <<"arrhenius_electrolyte_conductivity", "ArrheniusElectrolyteConductivity">>,
       <<"arrhenius_electrolyte_diffusivity", "ArrheniusElectrolyteDiffusivity">>,
       <<"arrhenius_particle_diffusivity", "ArrheniusParticleDiffusivity">>,
       <<"average_ocp", "AverageOcp">>,
       <<"bruggeman", "Bruggeman">>,
       <<"constant_electrolyte", "ConstantElectrolyte">>,
       <<"from_json", "FromJson">>,
       <<"landesfeind_electrolyte", "LandesfeindElectrolyte">>,
       <<"li_plating_defaults", "LiPlatingDefaults">>,
       <<"lithium_metal_anode", "LithiumMetalAnode">>,
       <<"mechanical_degradation_defaults", "MechanicalDegradationDefaults">>,
       <<"nyman_electrolyte", "NymanElectrolyte">>,
       <<"one_cm2_cell", "OneCm2Cell">>,
       <<"sei_defaults", "SeiDefaults">>,
       <<"spm_defaults", "SpmDefaults">>,
       <<"standard_defaults", "StandardDefaults">>,
       <<"temperatures", "Temperatures">>,
       <<"zero_activation_energy", "ZeroActivationEnergy">>,
       <<"zero_entropic_change", "ZeroEntropicChange">> >>

\* values a lookup returns that are not data: a class, a function, a raised error
ClassRef(cls) == [k |-> "class", cls |-> cls]

Function(name, closure) == [k |-> "function", name |-> name, closure |-> closure]

\* repr(name) inside a message
Repr(name) == <<"'", name, "'">>

\* the names direct_entries/__init__.py binds by its imports (NamedDirectEntry,
\* which the import statement also names, is not defined by direct_entries.py)
direct_entries_globals ==
    << <<"DirectEntry", ClassRef("DirectEntry")>>,
       <<"PiecewiseInterpolation1D", ClassRef("PiecewiseInterpolation1D")>>,
       <<"PiecewiseInterpolation2D", ClassRef("PiecewiseInterpolation2D")>>,
       <<"FUNCTION_ENTRY_NAMES", List(19, [i \in 1..Len(FUNCTION_ENTRY_NAMES) |->
                                              Str(FUNCTION_ENTRY_NAMES[i])])>> >>

\* direct_entries.__getattr__, called for a name the module does not bind
direct_entries_getattr(name) ==
    IF \E i \in 1..Len(FUNCTION_ENTRY_NAMES) : FUNCTION_ENTRY_NAMES[i] = name
    THEN Function("_wrapper", name)
    ELSE Raise("AttributeError",
               <<"module ">> \o Repr("ionworks_schema.direct_entries")
                   \o <<" has no attribute ">> \o Repr(name))

\* getattr(ionworks_schema.direct_entries, name)
direct_entries_attribute(name) ==
    IF HasKey(direct_entries_globals, name) THEN Get(direct_entries_globals, name)
    ELSE direct_entries_getattr(name)

\* ionworks_schema._TOP_LEVEL_DEPRECATED: name -> submodule
_TOP_LEVEL_DEPRECATED ==
    << <<"MSMRHalfCell", "objectives">>, <<"MSMRFullCell", "objectives">>,
       <<"DirectEntry", "direct_entries">> >>

\* the classes the package binds at top level by its imports
package_globals ==
    << <<"BaseSchema", ClassRef("BaseSchema")>>, <<"Pipeline", ClassRef("Pipeline")>>,
       <<"ArrayDataFit", ClassRef("ArrayDataFit")>>, <<"DataFit", ClassRef("DataFit")>>,
       <<"Library", ClassRef("Library")>>, <<"Material", ClassRef("Material")>>,
       <<"Parameter", ClassRef("Parameter")>>, <<"Validation", ClassRef("Validation")>> >>

\* ionworks_schema.__getattr__, called for a name the package does not bind
package_getattr(name) ==
    IF HasKey(_TOP_LEVEL_DEPRECATED, name)
    THEN IF Get(_TOP_LEVEL_DEPRECATED, name) = "direct_entries"
         THEN direct_entries_attribute(name)
         ELSE ClassRef(name)
    ELSE Raise("AttributeError",
               <<"module ">> \o Repr("ionworks_schema") \o <<" has no attribute ">>
                   \o Repr(name))

\* getattr(ionworks_schema, name)
package_attribute(name) ==
    IF HasKey(package_globals, name) THEN Get(package_globals, name)
    ELSE package_getattr(name)

\* two of the eight entries of library._MATERIALS as the module defines them
\* (every entry has this shape: name, description, three lists of numbers)
StoredMaterials ==
    Dict(20,
      << <<"LFP - Verbrugge 2017",
           Dict(21,
             << <<"name", Str("LFP - Verbrugge 2017")>>,
                <<"description", Str("Thermodynamic parameters for LixFePO4 from Mark Verbrugge et al 2017 J.Electrochem.Soc. 164 E3243")>>,
                <<"parameter values",
                  Dict(22,
                    << <<"Negative electrode host site standard potential [V]",
                         List(23, <<Num(3429770), Num(3429770)>>)>>,
                       <<"Negative electrode host site occupancy fraction",
                         List(24, <<Num(825840), Num(174160)>>)>>,
                       <<"Negative electrode host site ideality factor",
                         List(25, <<Num(60980), Num(358680)>>)>> >>)>> >>)>>,
         <<"NMC - Verbrugge 2017",
           Dict(26,
             << <<"name", Str("NMC - Verbrugge 2017")>>,
                <<"description", Str("Thermodynamic parameters for NMC622 from Mark Verbrugge et al 2017 J.Electrochem.Soc. 164 E3243")>>,
                <<"parameter values",
                  Dict(27,
                    << <<"Positive electrode host site standard potential [V]",
                         List(28, <<Num(3600000), Num(3700000), Num(3900000),
                                    Num(4200000)>>)>>,
                       <<"Positive electrode host site occupancy fraction",
                         List(29, <<Num(131313), Num(323232), Num(212121),
                                    Num(333333)>>)>>,
                       <<"Positive electrode host site ideality factor",
                         List(30, <<Num(1000000), Num(1400000), Num(3500000),
                                    Num(5500000)>>)>> >>)>> >>)>> >>)

\* variant: an unknown name gives an empty Material of that name
from_library_default(name) ==
    IF ~HasKey(_MATERIALS.v, name)
    THEN New("Material", << Kw("name", Str(name)) >>)
    ELSE LET data == Get(_MATERIALS.v, name)
         IN  New("Material",
                 << Kw("name", Get(data.v, "name")),
                    Kw("description", Get(data.v, "description")),
                    Kw("parameter_values",
                       Dict(Fresh, Get(data.v, "parameter values").v)) >>)

\* Material.from_library
from_library(name) ==
    IF ~HasKey(_MATERIALS.v, name)
    THEN Raise("KeyError", <<"Unknown material: ", name>>)
    ELSE LET data == Get(_MATERIALS.v, name)
         IN  New("Material",
                 << Kw("name", Get(data.v, "name")),
                    Kw("description", Get(data.v, "description")),
                    Kw("parameter_values",
                       Dict(Fresh, Get(data.v, "parameter values").v)) >>)

\* Library.get_material
get_material(name) == from_library(name)

\* Library.list_materials
list_materials ==
    List(Fresh, [i \in 1..Len(_MATERIALS.v) |-> Str(_MATERIALS.v[i][1])])

----------------------------------------------------------------------------
(* The pipeline machine: a caller builds a Pipeline, converts it and hands  *)
(* the document on, as demo/01_generate_config.py does.                     *)

Init ==
    /\ \E elements \in {Null, Dict(16, <<>>)},
          output_file \in MetadataValues.output_file,
          name \in MetadataValues.name,
          description \in MetadataValues.description :
            pipe = New("Pipeline", << Kw("elements", elements), Kw("output_file", output_file),
                                      Kw("name", name), Kw("description", description) >>)
    /\ pipe_cfg = NoDoc
    /\ inst = NoInst
    /\ inst_cfg = NoDoc
    /\ _MATERIALS = StoredMaterials
    /\ found = NoFound
    /\ called = NoCall
    /\ serialized = NoSerialized

\* pipe.elements[name] = comp
AddElement(name, comp) ==
    LET elements == Get(pipe.v, "elements")
    IN  /\ pipe_cfg = NoDoc
        /\ IsDict(elements)
        /\ HasKey(elements.v, name) \/ Len(elements.v) < MaxElements
        /\ pipe' = [pipe EXCEPT !.v = DictSet(@, "elements",
                                              [elements EXCEPT !.v = DictSet(@, name, comp)])]
        /\ UNCHANGED <<pipe_cfg, inst, inst_cfg, _MATERIALS, found, called, serialized>>

\* pipe.<key> = value for one of the metadata fields
SetMetadata(key, value) ==
    /\ pipe_cfg = NoDoc
    /\ Get(pipe.v, key) # value
    /\ pipe' = SetAttr(pipe, key, value)
    /\ UNCHANGED <<pipe_cfg, inst, inst_cfg, _MATERIALS, found, called, serialized>>

\* config = pipeline.to_config(): what the call wrote into a container the
\* pipeline holds is read back through the pipeline
PipelineToConfig ==
    /\ pipe_cfg = NoDoc
    /\ pipe_cfg' = Pipeline_to_config(pipe)
    /\ pipe' = Rebind(pipe, pipe_cfg')
    /\ UNCHANGED <<inst, inst_cfg, _MATERIALS, found, called, serialized>>

\* json.dump(config, f): the document leaves the caller's hands
DumpConfig ==
    /\ pipe_cfg # NoDoc
    /\ pipe_cfg' = NoDoc
    /\ UNCHANGED <<pipe, inst, inst_cfg, _MATERIALS, found, called, serialized>>

Next ==
    \/ \E name \in ElementNames, comp \in PipelineElements : AddElement(name, comp)
    \/ \E key \in DOMAIN MetadataValues : \E value \in MetadataValues[key] : SetMetadata(key, value)
    \/ PipelineToConfig
    \/ DumpConfig

Spec == Init /\ [][Next]_vars

----------------------------------------------------------------------------
(* The schema machine: a caller builds one schema instance, assigns to its  *)
(* fields and converts it, as the tests do.                                 *)

SchemaInit ==
    /\ pipe = EmptyPipeline
    /\ pipe_cfg = NoDoc
    /\ inst = NoInst
    /\ inst_cfg = NoDoc
    /\ _MATERIALS = StoredMaterials
    /\ found = NoFound
    /\ called = NoCall
    /\ serialized = NoSerialized

\* inst = cls(**kwargs): a call that raises leaves the name as it was
Construct(cls, kwargs) ==
    LET made == New(cls, kwargs)
    IN  /\ inst_cfg = NoDoc
        /\ called' = [op |-> "new", name |-> cls, args |-> kwargs,
                      raised |-> IF IsRaise(made) THEN made ELSE Null]
        /\ inst' = IF IsRaise(made) THEN inst ELSE made
        /\ UNCHANGED <<pipe, pipe_cfg, inst_cfg, _MATERIALS, found, serialized>>

\* inst.key = value under validate_assignment=True
Assign(key, value) ==
    LET result == SetAttr(inst, key, value)
    IN  /\ inst_cfg = NoDoc
        /\ inst # NoInst
        /\ called' = [op |-> "setattr", name |-> inst.cls, args |-> << <<key, value>> >>,
                      raised |-> IF IsRaise(result) THEN result ELSE Null]
        /\ inst' = AfterSetAttr(inst, key, value)
        /\ UNCHANGED <<pipe, pipe_cfg, inst_cfg, _MATERIALS, found, serialized>>

\* cfg = inst.to_config(): what the call wrote into a container the instance
\* holds is read back through the instance
ToConfig ==
    /\ inst # NoInst
    /\ inst_cfg = NoDoc
    /\ inst_cfg' = to_config(inst)
    /\ inst' = Rebind(inst, inst_cfg')
    /\ UNCHANGED <<pipe, pipe_cfg, _MATERIALS, found, called, serialized>>

\* the places of a "values" mapping in a document: <<>> for doc["values"],
\* <<name>> for doc["elements"][name]["values"]
ValuesPaths(doc) ==
    IF ~IsDict(doc) THEN {}
    ELSE (IF HasKey(doc.v, "values") /\ IsDict(Get(doc.v, "values")) THEN {<<>>} ELSE {})
         \cup
         (IF HasKey(doc.v, "elements") /\ IsDict(Get(doc.v, "elements"))
          THEN {<<Get(doc.v, "elements").v[i][1]>> :
                   i \in {j \in 1..Len(Get(doc.v, "elements").v) :
                             /\ IsDict(Get(doc.v, "elements").v[j][2])
                             /\ HasKey(Get(doc.v, "elements").v[j][2].v, "values")
                             /\ IsDict(Get(Get(doc.v, "elements").v[j][2].v, "values"))}}
          ELSE {})

\* the places the caller may edit
EditPaths == {<<>>} \cup {<<name>> : name \in ElementNames}

\* the "values" mapping at a place of the document
ValuesAt(doc, path) ==
    IF path = <<>> THEN Get(doc.v, "values")
    ELSE Get(Get(Get(doc.v, "elements").v, path[1]).v, "values")

\* what the caller does to the mapping
DocumentEdits == {"add", "remove", "change"}

\* values["Extra"] = 1.0, values.pop(first key), values[first key] = 0.0
EditValues(values, op) ==
    CASE op = "add" -> [values EXCEPT !.v = DictSet(@, "Extra", Num(100))]
      [] op = "remove" /\ values.v # <<>> -> [values EXCEPT !.v = DictPop(@, values.v[1][1])]
      [] op = "change" /\ values.v # <<>> -> [values EXCEPT !.v = DictSet(@, values.v[1][1], Num(0))]
      [] OTHER -> values

\* the document once the mapping at the place holds the edited content
WriteValues(doc, path, values) ==
    IF path = <<>> THEN [doc EXCEPT !.v = DictSet(@, "values", values)]
    ELSE LET elements == Get(doc.v, "elements")
             elem == Get(elements.v, path[1])
         IN  [doc EXCEPT !.v = DictSet(@, "elements",
                 [elements EXCEPT !.v = DictSet(@, path[1],
                     [elem EXCEPT !.v = DictSet(@, "values", values)])])]

\* the caller edits a "values" mapping of the document it holds; the edit is
\* read back through the instance where the mapping is an object it holds
EditDocument(path, op) ==
    /\ inst_cfg # NoDoc
    /\ path \in ValuesPaths(inst_cfg)
    /\ EditValues(ValuesAt(inst_cfg, path), op) # ValuesAt(inst_cfg, path)
    /\ inst_cfg' = WriteValues(inst_cfg, path, EditValues(ValuesAt(inst_cfg, path), op))
    /\ inst' = Rebind(inst, inst_cfg')
    /\ UNCHANGED <<pipe, pipe_cfg, _MATERIALS, found, called, serialized>>

\* the test function returns: the document is dropped
DropConfig ==
    /\ inst_cfg # NoDoc
    /\ inst_cfg' = NoDoc
    /\ UNCHANGED <<pipe, pipe_cfg, inst, _MATERIALS, found, called, serialized>>

SchemaNext ==
    \/ \E call \in SchemaCalls : Construct(call[1], call[2])
    \/ \E a \in SchemaAssignments : Assign(a[1], a[2])
    \/ ToConfig
    \/ \E path \in EditPaths, op \in DocumentEdits : EditDocument(path, op)
    \/ DropConfig

SchemaSpec == SchemaInit /\ [][SchemaNext]_vars


----------------------------------------------------------------------------
(* The lookup machine: a caller looks names up in the library, in the      *)
(* direct_entries module, in FUNCTION_SCHEMAS and in the package, edits a  *)
(* Material it got and builds and converts schemas from a class it got.    *)

LookupInit == SchemaInit

\* the names the caller asks the library for
MaterialRequests ==
    {"LFP - Verbrugge 2017", "NMC - Verbrugge 2017", "Unobtainium", ""}

\* the names the caller asks the modules for
AttributeRequests ==
    {"average_ocp", "arrhenius_particle_diffusivity", "zero_entropic_change", "bruggeman",
     "DirectEntry", "MSMRHalfCell", "Pipeline", "not_a_function", "AverageOcp"}

\* the keyword arguments the caller builds a function schema with
FunctionSchemaKwargs ==
    { <<>>, << Kw("electrode", Str("positive")) >>,
      << Kw("electrode", Str("negative")), Kw("phase", Str("")) >> }

\* found = <how>(name) for the four ways to the library and the registries
Lookup(how, name) ==
    /\ found' = [request |-> <<how, name>>, edited |-> FALSE,
                 result |-> CASE how = "get_material" -> get_material(name)
                              [] how = "from_library" -> from_library(name)
                              [] how = "direct_entries" -> direct_entries_attribute(name)
                              [] how = "FUNCTION_SCHEMAS" ->
                                     IF HasKey(FUNCTION_SCHEMAS, name)
                                     THEN ClassRef(Get(FUNCTION_SCHEMAS, name))
                                     ELSE Raise("KeyError", <<name>>)
                              [] OTHER -> package_attribute(name)]
    /\ found' # found
    /\ UNCHANGED <<pipe, pipe_cfg, inst, inst_cfg, _MATERIALS, called, serialized>>

\* found = Library.list_materials()
ListMaterials ==
    /\ found' = [request |-> <<"list_materials", "">>, edited |-> FALSE,
                 result |-> list_materials]
    /\ found' # found
    /\ UNCHANGED <<pipe, pipe_cfg, inst, inst_cfg, _MATERIALS, called, serialized>>

\* the caller edits the Material it got: parameter_values[key] = [0.0]
\* ("replace") or parameter_values[key][0] = 0.0 ("in place"); an edit of a
\* list the library holds too is read back through the library
EditMaterial(i, op) ==
    LET material == found.result
        parameter_values == Get(material.v, "parameter_values")
        key == parameter_values.v[i][1]
        values == parameter_values.v[i][2]
        edited == IF op = "replace" THEN List(Fresh, <<Num(0)>>)
                  ELSE [values EXCEPT !.v = [@ EXCEPT ![1] = Num(0)]]
    IN  /\ IsObj(found.result)
        /\ found.result.cls = "Material"
        /\ i \in 1..Len(parameter_values.v)
        /\ edited # values
        /\ found' = [found EXCEPT !.edited = TRUE,
                                   !.result.v =
                        DictSet(@, "parameter_values",
                                [parameter_values EXCEPT !.v = DictSet(@, key, edited)])]
        /\ _MATERIALS' = Rebind(_MATERIALS, found'.result)
        /\ UNCHANGED <<pipe, pipe_cfg, inst, inst_cfg, called, serialized>>

\* inst = found(**kwargs) for a schema class the lookup returned
CallFound(kwargs) ==
    /\ found.result.k = "class"
    /\ \E c \in Classes : c.name = found.result.cls
    /\ "DirectEntryFunctionSchema" \in MroNames(Obj(found.result.cls, <<>>))
    /\ inst_cfg = NoDoc
    /\ ~IsRaise(New(found.result.cls, kwargs))
    /\ inst' = New(found.result.cls, kwargs)
    /\ UNCHANGED <<pipe, pipe_cfg, inst_cfg, _MATERIALS, found, called, serialized>>

LookupNext ==
    \/ \E how \in {"get_material", "from_library"}, name \in MaterialRequests : Lookup(how, name)
    \/ \E how \in {"direct_entries", "FUNCTION_SCHEMAS", "package"}, name \in AttributeRequests :
           Lookup(how, name)
    \/ ListMaterials
    \/ \E i \in 1..3, op \in {"replace", "in place"} : EditMaterial(i, op)
    \/ \E kwargs \in FunctionSchemaKwargs : CallFound(kwargs)
    \/ ToConfig
    \/ DropConfig

LookupSpec == LookupInit /\ [][LookupNext]_vars


----------------------------------------------------------------------------
(* The validation machine: a caller builds Parameters, DataFits,           *)
(* ArrayDataFits and solver configs, valid and invalid, assigns to the      *)
(* validated fields and converts what it holds.                             *)

SomeParameters == Dict(32, << <<"k", Num(100)>> >>)

SomePriors ==
    List(33, << Dict(34, << <<"param", Str("x")>>, <<"mean", Num(0)>>, <<"std", Num(100)>> >>) >>)

SomeObjectives == Dict(35, << <<"fit1", AnObjective>> >>)

\* the constructor calls of the validation machine
ValidationCalls ==
    { <<"Parameter", << Kw("name", Str("x")) >> >>,
      <<"Parameter", << Kw("name", Str("x")), Kw("bounds", Tuple(<<Num(0), Num(200)>>)) >> >>,
      <<"Parameter", << Kw("name", Str("x")), Kw("bounds", Tuple(<<Num(200), Num(0)>>)) >> >>,
      <<"Parameter", << Kw("name", Str("x")), Kw("bounds", Tuple(<<Num(100), Num(100)>>)) >> >>,
      <<"DataFit", << Kw("objectives", SomeObjectives), Kw("source", Str("test")) >> >>,
      <<"DataFit", << Kw("objectives", SomeObjectives), Kw("source", Str("test")),
                      Kw("parameters", SomeParameters) >> >>,
      <<"DataFit", << Kw("objectives", SomeObjectives), Kw("source", Str("test")),
                      Kw("priors", SomePriors) >> >>,
      <<"DataFit", << Kw("objectives", SomeObjectives), Kw("source", Str("test")),
                      Kw("parameters", SomeParameters), Kw("priors", SomePriors) >> >>,
      <<"DataFit", << Kw("objectives", SomeObjectives), Kw("parameters", Dict(36, <<>>)),
                      Kw("priors", SomePriors) >> >>,
      <<"DataFit", << Kw("objectives", SomeObjectives), Kw("parameters", Dict(36, <<>>)) >> >>,
      <<"ArrayDataFit", <<>> >>,
      <<"ArrayDataFit", << Kw("objectives", Null) >> >>,
      <<"ArrayDataFit", << Kw("objectives", Dict(37, << <<"298.15", AnObjective>>,
                                                        <<"318.15", AnObjective>> >>)) >> >>,
      <<"ArrayDataFit", << Kw("objectives", Dict(7, << <<"T1", AnObjective>> >>)),
                           Kw("parameters", Dict(38, << <<"p", Num(100)>> >>)) >> >>,
      <<"ScipySolverConfig", << Kw("type", Str("ScipySolver")) >> >>,
      <<"ScipySolverConfig", << Kw("type", Str("ScipySolver")), Kw("method", Str("BDF")) >> >>,
      <<"ScipySolverConfig", << Kw("type", Str("CasadiSolver")) >> >>,
      <<"ScipySolverConfig", << Kw("method", Str("BDF")) >> >> }

\* the assignments of the validation machine: the class of the instance, the
\* field and the value
ValidationAssignments ==
    { <<"Parameter", "bounds", Tuple(<<Num(0), Num(300)>>)>>,
      <<"Parameter", "bounds", Tuple(<<Num(200), Num(0)>>)>>,
      <<"Parameter", "bounds", Tuple(<<Num(100), Num(100)>>)>>,
      <<"Parameter", "bounds", Null>>,
      <<"DataFit", "parameters", SomeParameters>>, <<"DataFit", "parameters", Null>>,
      <<"DataFit", "priors", SomePriors>>, <<"DataFit", "priors", Null>>,
      <<"ScipySolverConfig", "type", Str("CasadiSolver")>>,
      <<"ScipySolverConfig", "method", Str("RK45")>>,
      <<"ScipySolverConfig", "tolerance", Num(1)>> }

\* inst.key = value on an instance of the class
AssignTo(cls, key, value) ==
    /\ inst # NoInst
    /\ inst.cls = cls
    /\ Assign(key, value)

ValidationNext ==
    \/ \E call \in ValidationCalls : Construct(call[1], call[2])
    \/ \E a \in ValidationAssignments : AssignTo(a[1], a[2], a[3])
    \/ ToConfig
    \/ DropConfig

ValidationSpec == SchemaInit /\ [][ValidationNext]_vars


----------------------------------------------------------------------------
(* The serializer machine: _serialize_value is called on one value after    *)
(* another: values of Python, schemas, pybamm models and objects of other   *)
(* libraries, tabular ones among them.                                      *)

\* what a call of to_dict does: it returns the columns, or it raises
ToDictOutcomes(keyword, data) ==
    { Dict(Fresh, data),
      Raise("TypeError", <<"to_dict() got an unexpected keyword argument ", keyword>>),
      Raise("ValueError", <<"cannot convert with ", keyword>>) }

\* the column data of the frames
FrameData ==
    { << <<"t", List(Fresh, <<Num(0), Num(100)>>)>>, <<"V", List(Fresh, <<Num(420), Num(410)>>)>> >>,
      << <<"SOC", List(Fresh, <<Num(50)>>)>> >>,
      <<>> }

\* a value with a to_dict operation and a columns attribute
Frame(module, orient, as_series, data) ==
    Duck(module, [to_dict |-> [orient |-> orient, as_series |-> as_series],
                  columns |-> Keys(data)])

\* a pandas DataFrame, a polars DataFrame, and the frames of other libraries,
\* two of which carry the name of pandas or polars in their module path
Frames ==
    UNION { { Frame(<<"pandas", ".core.frame">>, Dict(Fresh, data),
                    Raise("TypeError", <<"to_dict() got an unexpected keyword argument ",
                                         "as_series">>), data),
              Frame(<<"polars", ".dataframe.frame">>,
                    Raise("TypeError", <<"to_dict() got an unexpected keyword argument ",
                                         "orient">>), Dict(Fresh, data), data) }
            \cup
            { Frame(module, orient, as_series, data) :
                  module \in { <<"mylib.table">>, <<"mylib.", "pandas", "_compat">>,
                               <<"mylib.", "polars", "_compat">> },
                  orient \in ToDictOutcomes("orient", data),
                  as_series \in ToDictOutcomes("as_series", data) }
          : data \in FrameData }

Columns == Dict(Fresh, << <<"a", List(Fresh, <<Num(100)>>)>> >>)

\* objects of other libraries with several capabilities at once
Ducks ==
    { Duck(<<"mylib">>, [to_config |-> Dict(Fresh, << <<"via", Str("to_config")>> >>)]),
      Duck(<<"mylib">>, [to_config |-> Dict(Fresh, << <<"via", Str("to_config")>> >>),
                         model_dump |-> Dict(Fresh, << <<"via", Str("model_dump")>> >>),
                         to_dict |-> [orient |-> Columns, as_series |-> Columns],
                         columns |-> <<"a">>,
                         tolist |-> List(Fresh, <<Num(100)>>)]),
      Duck(<<"mylib">>, [model_dump |-> Dict(Fresh, << <<"via", Str("model_dump")>> >>),
                         to_dict |-> [orient |-> Columns, as_series |-> Columns],
                         columns |-> <<"a">>]),
      Duck(<<"mylib">>, [to_dict |-> [orient |-> Columns, as_series |-> Columns],
                         columns |-> <<"a">>,
                         tolist |-> List(Fresh, <<Num(100)>>)]),
      Duck(<<"mylib">>, [to_dict |-> [orient |-> Columns, as_series |-> Columns]]),
      Duck(<<"mylib">>, [tolist |-> List(Fresh, <<List(Fresh, <<Num(100)>>)>>)]),
      Duck(<<"mylib">>, [label |-> Str("opaque")]) }

PybammModels ==
    { PybammModel("SPM", Dict(39, << <<"thermal", Str("lumped")>>, <<"particle", Null>> >>), {}),
      PybammModel("DFN", Dict(40, << <<"thermal", Null>> >>), {}),
      PybammModel("MSMR", Null, {}),
      PybammModel("MyModel", Null, {"default_geometry", "default_var_pts"}) }

\* the values given to _serialize_value
SerializerInputs ==
    Frames \cup Ducks \cup PybammModels \cup
    { Null, Num(100), Str("data.csv"), [k |-> "bool", v |-> TRUE],
      Tuple(<<Num(0), Num(200)>>),
      Array(<<Num(100), Num(200)>>),
      AParameter, ANormal, AnObjective,
      New("Log", << Kw("parameter", AParameter) >>),
      New("AverageOcp", << Kw("electrode", Str("positive")) >>),
      New("Material", << Kw("name", Str("NMC")), Kw("description", Null),
                         Kw("parameter_values", Dict(9, << <<"U0", List(10, <<Num(395)>>)>> >>)) >>),
      Dict(41, << <<"z", AParameter>>, <<"a", Tuple(<<Null, Array(<<Num(100)>>)>>)>> >>),
      List(42, << ANormal, Dict(43, << <<"k", Null>> >>) >>),
      List(44, << Num(100),
                  Frame(<<"mylib.table">>,
                        Raise("ValueError", <<"cannot convert with ", "orient">>),
                        Dict(Fresh, <<>>), <<>>),
                  Num(200) >>),
      Dict(45, << <<"data", Frame(<<"pandas", ".core.frame">>, Columns, Columns,
                                  << <<"a", List(Fresh, <<Num(100)>>)>> >>)>> >>) }

\* result = _serialize_value(value)
Serialize(value) ==
    /\ serialized' = [value |-> value, result |-> _serialize_value(value)]
    /\ serialized' # serialized
    /\ UNCHANGED <<pipe, pipe_cfg, inst, inst_cfg, _MATERIALS, found, called>>

SerializeNext == \E value \in SerializerInputs : Serialize(value)

SerializeSpec == SchemaInit /\ [][SerializeNext]_vars


----------------------------------------------------------------------------
(* Properties *)

\* the element_type a document carries, Null when it carries none
ElementTypeOf(doc) ==
    IF IsDict(doc) /\ HasKey(doc.v, "element_type") THEN Get(doc.v, "element_type") ELSE Null

\* the (name, element) pairs of the pipeline
PipeItems == IF IsDict(Get(pipe.v, "elements")) THEN Get(pipe.v, "elements").v ELSE <<>>

\* the serialized elements of the held pipeline document
CfgItems == Get(pipe_cfg.v, "elements").v

\* the document the element's own converter gives, before the Pipeline tags it
OwnDocument(comp) ==
    IF HasToConfig(comp) THEN to_config(comp)
    ELSE IF HasModelDump(comp) THEN model_dump(comp)
    ELSE IF IsDict(comp) THEN comp
    ELSE Dict(Fresh, <<>>)

\* the tag of section 4.4, first match wins
ClassifierTag(comp) ==
    CASE "DirectEntry" \in MroNames(comp) -> Str("entry")
      [] "DirectEntryFunctionSchema" \in MroNames(comp) -> Str("entry")
      [] TypeName(comp) = "DataFit" \/ TypeName(comp) = "ArrayDataFit" -> Str("data_fit")
      [] TypeName(comp) = "Validation" -> Str("validation")
      [] "Calculation" \in MroNames(comp) -> Str("calculation")
      [] OTHER -> Null

\* C1 as stated: the element_type of every serialized element equals the
\* classifier's result for the original element, absent when the classifier
\* yields no tag.
C1_Original ==
    pipe_cfg # NoDoc =>
        \A i \in 1..Len(PipeItems) :
            /\ HasKey(CfgItems, PipeItems[i][1])
            /\ ElementTypeOf(Get(CfgItems, PipeItems[i][1])) = ClassifierTag(PipeItems[i][2])

\* C1 amended: when the classifier determines a tag the serialized element
\* carries exactly that tag; when it determines none the Pipeline sets no tag
\* and the element keeps the element_type of its own document, if any.
C1_ElementType ==
    pipe_cfg # NoDoc =>
        \A i \in 1..Len(PipeItems) :
            LET comp == PipeItems[i][2]
                tag == ClassifierTag(comp)
            IN  /\ HasKey(CfgItems, PipeItems[i][1])
                /\ ElementTypeOf(Get(CfgItems, PipeItems[i][1])) =
                       IF tag # Null THEN tag ELSE ElementTypeOf(OwnDocument(comp))

\* a converted pipeline holding an element the classifier tags by ancestry and
\* one it does not tag whose own converter emits element_type
C1_Witness ==
    /\ pipe_cfg # NoDoc
    /\ \E i, j \in 1..Len(PipeItems) :
          /\ TypeName(PipeItems[i][2]) = "PiecewiseInterpolation1D"
          /\ ElementTypeOf(Get(CfgItems, PipeItems[i][1])) = Str("entry")
          /\ TypeName(PipeItems[j][2]) = "InitialStateOfCharge"
          /\ ElementTypeOf(Get(CfgItems, PipeItems[j][1])) = Str("entry")

\* the concrete schemas of the calculations module that the model holds
CalculationsModule == {"AreaToSquareWidthHeight", "ArrheniusDiffusivityFromMSMRData"}

\* C2: every concrete calculation schema has Calculation in its ancestry, and
\* as a pipeline element is serialized with element_type "calculation" and
\* type equal to its own class name.
C2_CalculationTagged ==
    pipe_cfg # NoDoc =>
        \A i \in 1..Len(PipeItems) :
            LET comp == PipeItems[i][2]
                out == Get(CfgItems, PipeItems[i][1])
            IN  TypeName(comp) \in CalculationsModule =>
                    /\ "Calculation" \in MroNames(comp)
                    /\ ElementTypeOf(out) = Str("calculation")
                    /\ HasKey(out.v, "type")
                    /\ Get(out.v, "type") = Str(TypeName(comp))

MetadataKeys == {"output_file", "name", "description"}

ScenarioA ==
    Dict(Fresh,
         << <<"elements",
              Dict(Fresh,
                   << <<"e1", Dict(Fresh, << <<"element_type", Str("entry")>>,
                                            <<"values", Dict(Fresh, << <<"Electrode area [m2]",
                                                                       Num(1)>> >>)>> >>)>> >>)>> >>)

\* C3: the key set of a pipeline document is "elements" plus the metadata
\* keys whose stored value is non-null, each carrying the stored value;
\* "elements" is the empty mapping for a pipeline with no elements; scenario A
\* serializes to exactly the stated document.
C3_PipelineKeys ==
    pipe_cfg # NoDoc =>
        /\ KeySet(pipe_cfg.v) =
               {"elements"} \cup {key \in MetadataKeys : ~IsNull(Get(pipe.v, key))}
        /\ \A key \in MetadataKeys \cap KeySet(pipe_cfg.v) :
               Get(pipe_cfg.v, key) = Get(pipe.v, key)
        /\ IsDict(Get(pipe_cfg.v, "elements"))
        /\ PipeItems = <<>> => CfgItems = <<>>
        /\ ( /\ Keys(PipeItems) = <<"e1">>
             /\ PipeItems[1][2] = New("DirectEntry", << Kw("parameters", AreaParameters) >>)
             /\ \A key \in MetadataKeys : IsNull(Get(pipe.v, key)) )
           => PyEq(pipe_cfg, ScenarioA)

\* scenario A converted
C3_Witness ==
    /\ pipe_cfg # NoDoc
    /\ PyEq(pipe_cfg, ScenarioA)

\* C4: the keys of the document's "elements" are the pipeline's element names
\* in insertion order, one entry per element.
C4_ElementOrder ==
    pipe_cfg # NoDoc => Keys(CfgItems) = Keys(PipeItems)

\* a converted pipeline of two elements of different kinds inserted as e2, e1
C4_Witness ==
    /\ pipe_cfg # NoDoc
    /\ Keys(PipeItems) = <<"e2", "e1">>
    /\ IsDict(PipeItems[1][2])
    /\ IsObj(PipeItems[2][2])
    /\ Keys(CfgItems) = <<"e2", "e1">>

\* C5: a raw mapping element is serialized with exactly its keys and values,
\* as a mapping distinct from the input, which the conversion leaves as it was.
C5_RawPassthrough ==
    pipe_cfg # NoDoc =>
        \A i \in 1..Len(PipeItems) :
            LET comp == PipeItems[i][2]
            IN  IsDict(comp) =>
                    /\ HasKey(CfgItems, PipeItems[i][1])
                    /\ Get(CfgItems, PipeItems[i][1]).v = comp.v
                    /\ Get(CfgItems, PipeItems[i][1]).id # comp.id

\* a converted pipeline holding a raw mapping with a tag and one without
C5_Witness ==
    /\ pipe_cfg # NoDoc
    /\ \E i, j \in 1..Len(PipeItems) :
          /\ PipeItems[i][2] = RawTagged
          /\ ElementTypeOf(Get(CfgItems, PipeItems[i][1])) = Str("calculation")
          /\ PipeItems[j][2] = RawUntagged
          /\ ElementTypeOf(Get(CfgItems, PipeItems[j][1])) = Null


\* the instance's fields that hold a value
NonNullFields(self) == SelectSeq(self.v, LAMBDA p : ~IsNull(p[2]))

\* the output key the field mapping table gives a field: data_input -> data
OutputKey(key) == IF key = "data_input" THEN "data" ELSE key

\* the instance is converted by the default to_config
DefaultFamily(self) == IsObj(self) /\ Converter(self.cls) = "BaseSchema"

ExemptNames ==
    {"Pipeline", "DataFit", "ArrayDataFit", "Parameter", "DirectEntry", "Validation",
     "Calculation"}

\* C6 as stated: the default document contains "type" if and only if the own
\* class name is not exempt, and then its value is the own class name.
C6_Original ==
    (inst_cfg # NoDoc /\ DefaultFamily(inst)) =>
        /\ HasKey(inst_cfg.v, "type") <=> inst.cls \notin ExemptNames
        /\ HasKey(inst_cfg.v, "type") => Get(inst_cfg.v, "type") = Str(inst.cls)

\* C6 amended: an instance of a class that is not exempt is tagged with its
\* own class name, whatever ancestors and fields it has; an instance of an
\* exempt class has a "type" key only when it holds a non-null field named
\* type, and then the key carries that field.
C6_TypeTag ==
    (inst_cfg # NoDoc /\ DefaultFamily(inst)) =>
        /\ inst.cls \notin ExemptNames =>
               /\ HasKey(inst_cfg.v, "type")
               /\ Get(inst_cfg.v, "type") = Str(inst.cls)
        /\ inst.cls \in ExemptNames =>
               /\ HasKey(inst_cfg.v, "type") <=> HasKey(NonNullFields(inst), "type")
               /\ HasKey(inst_cfg.v, "type") =>
                      Get(inst_cfg.v, "type") = Get(inst.v, "type")

\* a converted instance of a differently named subclass of an exempt class
C6_Witness ==
    /\ inst_cfg # NoDoc
    /\ inst.cls = "CustomCalculation"
    /\ "Calculation" \in MroNames(inst)
    /\ HasKey(inst_cfg.v, "type")
    /\ Get(inst_cfg.v, "type") = Str("CustomCalculation")

\* the renaming holds of the objective documents nested in a data fit's objectives
NestedRenaming(requireNoData) ==
    (inst.cls \in {"DataFit", "ArrayDataFit"} /\ IsDict(Get(inst.v, "objectives"))) =>
        \A i \in 1..Len(Get(inst.v, "objectives").v) :
            LET key == Get(inst.v, "objectives").v[i][1]
                obj == Get(inst.v, "objectives").v[i][2]
            IN  ( /\ DefaultFamily(obj)
                  /\ HasKey(NonNullFields(obj), "data_input")
                  /\ requireNoData => ~HasKey(NonNullFields(obj), "data") )
                =>  /\ HasKey(inst_cfg.v, "objectives")
                    /\ HasKey(Get(inst_cfg.v, "objectives").v, key)
                    /\ HasKey(Get(Get(inst_cfg.v, "objectives").v, key).v, "data")
                    /\ ~HasKey(Get(Get(inst_cfg.v, "objectives").v, key).v, "data_input")
                    /\ PyEq(Get(Get(Get(inst_cfg.v, "objectives").v, key).v, "data"),
                            _serialize_value(Get(obj.v, "data_input")))

Renaming(requireNoData) ==
    (inst_cfg # NoDoc /\ DefaultFamily(inst)) =>
        /\ ( /\ HasKey(NonNullFields(inst), "data_input")
             /\ requireNoData => ~HasKey(NonNullFields(inst), "data") )
           =>  /\ HasKey(inst_cfg.v, "data")
               /\ ~HasKey(inst_cfg.v, "data_input")
               /\ PyEq(Get(inst_cfg.v, "data"), _serialize_value(Get(inst.v, "data_input")))
        /\ NestedRenaming(requireNoData)

\* C7 as stated: every default document of an instance holding data_input = v
\* (non-null) has data == serialize(v) and no key data_input, nested
\* objectives included.
C7_Original == Renaming(FALSE)

\* C7 outside the collision: the same, for an instance that holds no non-null field named
\* data of its own (such a field is written to the same output key, and the
\* one iterated last wins).
C7_Renaming == Renaming(TRUE)

\* a converted objective whose data_input is a mapping holding a schema, and
\* a converted data fit with a nested objective
C7_Witness ==
    /\ inst_cfg # NoDoc
    /\ inst.cls = "FittingObjective"
    /\ IsDict(Get(inst.v, "data_input"))
    /\ HasKey(inst_cfg.v, "data")
    /\ Get(inst_cfg.v, "data").id # Get(inst.v, "data_input").id

ScenarioC ==
    Dict(Fresh, << <<"initial_value", Num(100)>>,
                   <<"bounds", List(Fresh, <<Num(0), Num(200)>>)>> >>)

\* C8: a Parameter or Prior document never contains "name", whatever name was
\* given or assigned, and contains the other non-null fields; scenario C
\* converts to initial_value 1.0 and bounds [0.0, 2.0] without "name".
C8_NameExcluded ==
    (inst_cfg # NoDoc /\ IsObj(inst) /\ inst.cls \in {"Parameter", "Prior"}) =>
        /\ ~HasKey(inst_cfg.v, "name")
        /\ \A i \in 1..Len(NonNullFields(inst)) :
               NonNullFields(inst)[i][1] # "name" =>
                   HasKey(inst_cfg.v, OutputKey(NonNullFields(inst)[i][1]))
        /\ inst = AParameter => PyEq(inst_cfg, ScenarioC)

\* a converted Parameter whose name was assigned after construction
C8_Witness ==
    /\ inst_cfg # NoDoc
    /\ inst.cls = "Parameter"
    /\ Get(inst.v, "name") = Str("z")
    /\ HasKey(inst_cfg.v, "bounds")
    /\ ~HasKey(inst_cfg.v, "name")

\* the converters C9 names
NullOmittingFamily(self) ==
    /\ IsObj(self)
    /\ Converter(self.cls) \in
           {"BaseSchema", "_DistributionBase", "DirectEntryFunctionSchema", "Pipeline"}

\* the key a converter writes whatever the fields hold
FixedKeys(self) ==
    CASE Converter(self.cls) = "BaseSchema" ->
             IF self.cls \in ExemptNames THEN {} ELSE {"type"}
      [] Converter(self.cls) = "_DistributionBase" -> {"distribution"}
      [] Converter(self.cls) = "DirectEntryFunctionSchema" -> {"name"}
      [] OTHER -> {"elements"}

\* C9: a null field of the instance produces no key: the document is the one
\* the instance gives without its null fields (the Pipeline, which reads its
\* four fields by name, is covered by the key test), and the field's output key is
\* absent unless another field or the converter's fixed key writes it; a null
\* nested in a mapping-valued field is kept by the default converter.
C9_NullOmission ==
    (inst_cfg # NoDoc /\ NullOmittingFamily(inst)) =>
        /\ Converter(inst.cls) # "Pipeline" =>
               PyEq(inst_cfg, to_config(Obj(inst.cls, NonNullFields(inst))))
        /\ \A i \in 1..Len(inst.v) :
               ( /\ IsNull(inst.v[i][2])
                 /\ OutputKey(inst.v[i][1]) \notin FixedKeys(inst)
                 /\ \A j \in 1..Len(NonNullFields(inst)) :
                        OutputKey(NonNullFields(inst)[j][1]) # OutputKey(inst.v[i][1]) )
               => ~HasKey(inst_cfg.v, OutputKey(inst.v[i][1]))
        /\ \A i \in 1..Len(inst.v) :
               ( /\ DefaultFamily(inst)
                 /\ inst.v[i][1] = "options"
                 /\ IsDict(inst.v[i][2]) )
               =>  /\ HasKey(inst_cfg.v, "options")
                   /\ IsDict(Get(inst_cfg.v, "options"))
                   /\ Get(inst_cfg.v, "options").v = inst.v[i][2].v

\* a converted objective with null fields and options == {"model": None}
C9_Witness ==
    /\ inst_cfg # NoDoc
    /\ inst.cls = "FittingObjective"
    /\ IsNull(Get(inst.v, "callbacks"))
    /\ ~HasKey(inst_cfg.v, "callbacks")
    /\ HasKey(inst_cfg.v, "options")
    /\ Get(inst_cfg.v, "options").v = << <<"model", Null>> >>

TagKeys == {"type", "element_type", "distribution", "transform"}

\* C10 as stated: the own document of every schema instance contains at most
\* one of the keys type, element_type, distribution, transform.
C10_Original ==
    (inst_cfg # NoDoc /\ IsObj(inst)) =>
        Cardinality(TagKeys \cap KeySet(inst_cfg.v)) <= 1

\* C10 amended: at most one of the four keys, for an instance none of whose
\* own non-null fields is named distribution, element_type or transform (nor
\* type, outside the default converter, whose tag replaces it) and, for a
\* transform, whose wrapped parameter's document carries neither element_type
\* nor distribution.
C10_TagExclusive ==
    ( /\ inst_cfg # NoDoc
      /\ IsObj(inst)
      /\ Converter(inst.cls) # "Pipeline"
      /\ KeySet(NonNullFields(inst)) \cap {"distribution", "element_type", "transform"} = {}
      /\ "type" \in KeySet(NonNullFields(inst)) => DefaultFamily(inst)
      /\ Converter(inst.cls) = "TransformBaseSchema" =>
             KeySet(OwnDocument(Get(inst.v, "parameter")).v)
                 \cap {"distribution", "element_type"} = {} )
    => Cardinality(TagKeys \cap KeySet(inst_cfg.v)) <= 1

\* a converted chain of two transforms over a Parameter, carrying one tag key
C10_Witness ==
    /\ inst_cfg # NoDoc
    /\ inst.cls = "Exp"
    /\ TypeName(Get(inst.v, "parameter")) = "Log"
    /\ TagKeys \cap KeySet(inst_cfg.v) = {"transform"}


\* C11: a to_config call changes no field value of the instance nor of any
\* nested element, and a second call made right after it returns a document
\* equal to the first.
C11_PureIdempotent ==
    [][(inst_cfg = NoDoc /\ inst_cfg' # NoDoc) =>
           /\ inst' = inst
           /\ PyEq(to_config(inst'), inst_cfg')]_vars

\* a converted Pipeline with nested elements, and the same document again
C11_Witness ==
    /\ inst_cfg # NoDoc
    /\ inst.cls = "Pipeline"
    /\ IsDict(Get(inst.v, "elements"))
    /\ Len(Get(inst.v, "elements").v) = 3
    /\ PyEq(to_config(inst), inst_cfg)


\* C12 as stated: an edit of the "values" mapping of a held document (its own
\* or an element's inside a Pipeline's document) changes neither the instance
\* nor the document a later to_config call returns.
C12_ValuesCopied ==
    [][(inst_cfg # NoDoc /\ inst_cfg' # NoDoc /\ inst_cfg' # inst_cfg) =>
           /\ inst' = inst
           /\ PyEq(to_config(inst'), to_config(inst))]_vars


\* a JSON-compatible value: a string, number, boolean or null, or a list
\* (json writes a tuple as one) or mapping of such values
RECURSIVE IsJSON(_)
IsJSON(x) ==
    CASE x.k \in {"str", "num", "bool", "null"} -> TRUE
      [] x.k \in {"list", "tuple"} -> \A i \in 1..Len(x.v) : IsJSON(x.v[i])
      [] x.k = "dict" -> \A i \in 1..Len(x.v) : IsJSON(x.v[i][2])
      [] OTHER -> FALSE

\* C13 as stated: every document to_config produces holds JSON-compatible
\* values only, whatever the fields hold.
C13_JsonCompatible == inst_cfg # NoDoc => IsJSON(inst_cfg)


RegisteredName(cls) ==
    CASE cls = "AverageOcp" -> "average_ocp"
      [] cls = "ArrheniusParticleDiffusivity" -> "arrhenius_particle_diffusivity"
      [] cls = "ZeroEntropicChange" -> "zero_entropic_change"
      [] OTHER -> ""

\* the fields the named-reference converter writes: neither null nor the
\* empty string, the field called name apart
SetFields(self) ==
    SelectSeq(self.v, LAMBDA p : ~IsNull(p[2]) /\ p[2] # Str("") /\ p[1] # "name")

NamedReference(noTypeKey) ==
    (inst_cfg # NoDoc /\ IsObj(inst) /\ "DirectEntryFunctionSchema" \in MroNames(inst)) =>
        /\ KeySet(inst_cfg.v) = {"name"} \cup KeySet(SetFields(inst))
        /\ Get(inst_cfg.v, "name") = Str(RegisteredName(inst.cls))
        /\ \A i \in 1..Len(SetFields(inst)) :
               /\ HasKey(inst_cfg.v, SetFields(inst)[i][1])
               /\ SetFields(inst)[i][2].k \in {"str", "num"} =>
                      Get(inst_cfg.v, SetFields(inst)[i][1]) = SetFields(inst)[i][2]
        /\ noTypeKey => ~HasKey(inst_cfg.v, "type")
        /\ SetFields(inst) = <<>> => PyEq(inst_cfg, Dict(Fresh, << <<"name", Str(RegisteredName(inst.cls))>> >>))
        /\ inst = New("AverageOcp", << Kw("electrode", Str("positive")), Kw("phase", Null) >>) =>
               PyEq(inst_cfg, Dict(Fresh, << <<"name", Str("average_ocp")>>,
                                             <<"electrode", Str("positive")>> >>))

\* C15 as stated: the document of a function schema is {"name": registered
\* name} plus exactly the fields that are neither null nor the empty string,
\* the name never taken from a field, and it has no "type" key.
C15_Original == NamedReference(TRUE)

\* C15 amended: the same, the converter adding no "type" key of its own: the
\* document has a "type" key only when the instance holds a field named type
\* that is neither null nor the empty string, and then it carries that field.
C15_NamedReference == NamedReference(FALSE)

\* a converted average_ocp with phase unset whose name field was assigned
C15_Witness ==
    /\ inst_cfg # NoDoc
    /\ inst.cls = "AverageOcp"
    /\ IsNull(Get(inst.v, "phase"))
    /\ HasKey(inst.v, "name")
    /\ Get(inst.v, "name") = Str("z")
    /\ Get(inst_cfg.v, "name") = Str("average_ocp")


\* the registered function-entry names
RegisteredNames == {FUNCTION_SCHEMAS[i][1] : i \in 1..Len(FUNCTION_SCHEMAS)}

\* C16 as stated: the keys of FUNCTION_SCHEMAS are the FUNCTION_ENTRY_NAMES;
\* the attribute n of the direct_entries module is the class
\* FUNCTION_SCHEMAS[n]; an instance built through that class serializes with
\* name == n and, inside a Pipeline, with element_type == "entry".
C16_Registry ==
    /\ RegisteredNames = {FUNCTION_ENTRY_NAMES[i] : i \in 1..Len(FUNCTION_ENTRY_NAMES)}
    /\ (found.request[1] = "direct_entries" /\ found.request[2] \in RegisteredNames) =>
           found.result = ClassRef(Get(FUNCTION_SCHEMAS, found.request[2]))
    /\ ( /\ found.request[2] \in RegisteredNames
         /\ found.result.k = "class"
         /\ IsObj(inst)
         /\ inst.cls = found.result.cls
         /\ inst_cfg # NoDoc )
       =>  /\ HasKey(inst_cfg.v, "name")
           /\ Get(inst_cfg.v, "name") = Str(found.request[2])
           /\ ElementTypeOf(Get(Get(Pipeline_to_config(
                  New("Pipeline", << Kw("elements", Dict(Fresh, << <<"e1", inst>> >>)) >>)).v,
                  "elements").v, "e1")) = Str("entry")

\* the request is a lookup of a name that is not registered: a material the
\* library does not store, or an attribute that is neither a function-entry
\* name nor a name the module binds
Unregistered(request) ==
    \/ /\ request[1] \in {"get_material", "from_library"}
       /\ request[2] \notin {"LFP - Verbrugge 2017", "NMC - Verbrugge 2017"}
    \/ /\ request[1] = "direct_entries"
       /\ request[2] \notin RegisteredNames
       /\ request[2] \notin {"DirectEntry", "PiecewiseInterpolation1D",
                             "PiecewiseInterpolation2D", "FUNCTION_ENTRY_NAMES"}
    \/ /\ request[1] = "package"
       /\ request[2] \notin {"BaseSchema", "Pipeline", "ArrayDataFit", "DataFit", "Library",
                             "Material", "Parameter", "Validation", "MSMRHalfCell",
                             "MSMRFullCell", "DirectEntry"}

\* C17: a lookup of an unregistered name raises a not-found error (KeyError
\* for the library, AttributeError for the modules) whose message contains
\* the requested name, returns nothing and leaves the library data unchanged.
C17_NotFound ==
    [][(found' # found /\ ~found'.edited /\ Unregistered(found'.request)) =>
           /\ IsRaise(found'.result)
           /\ found'.result.v =
                  (IF found'.request[1] \in {"get_material", "from_library"}
                   THEN "KeyError" ELSE "AttributeError")
           /\ \E i \in 1..Len(found'.result.message) :
                  found'.result.message[i] = found'.request[2]
           /\ _MATERIALS' = _MATERIALS]_vars

\* the lookups of an unknown material and of an unknown attribute have raised
C17_Witness ==
    /\ found.request = <<"get_material", "Unobtainium">>
    /\ IsRaise(found.result)

\* C18 as stated: a lookup of a stored name returns a Material of that name
\* whose parameter_values equals the stored literal data, whatever lookups
\* and edits of returned records came before.
C18_LibraryValues ==
    ( /\ found.request[1] \in {"get_material", "from_library"}
      /\ HasKey(StoredMaterials.v, found.request[2])
      /\ ~found.edited )
    =>  /\ IsObj(found.result)
        /\ found.result.cls = "Material"
        /\ Get(found.result.v, "name") = Str(found.request[2])
        /\ PyEq(Get(found.result.v, "parameter_values"),
                Get(Get(StoredMaterials.v, found.request[2]).v, "parameter values"))


\* C19 as stated: the document of a distribution is a flat mapping of each
\* non-null field, serialized as the value serializer serializes it
\* (sequences and mappings holding schemas or arrays included), plus
\* "distribution" == the class name, and it has no "type" key.
C19_DistributionFields ==
    (IsObj(inst) /\ Converter(inst.cls) = "_DistributionBase" /\ inst_cfg # NoDoc) =>
        /\ KeySet(inst_cfg.v) = KeySet(NonNullFields(inst)) \cup {"distribution"}
        /\ \A i \in 1..Len(inst.v) :
               (~IsNull(inst.v[i][2]) /\ inst.v[i][1] # "distribution") =>
                   PyEq(Get(inst_cfg.v, inst.v[i][1]), _serialize_value(inst.v[i][2]))
        /\ Get(inst_cfg.v, "distribution") = Str(inst.cls)
        /\ "type" \notin KeySet(inst_cfg.v)


\* a transform that wraps a Parameter
WrapsParameter(self) ==
    /\ IsObj(self)
    /\ Converter(self.cls) = "TransformBaseSchema"
    /\ HasKey(self.v, "parameter")
    /\ IsObj(Get(self.v, "parameter"))
    /\ Get(self.v, "parameter").cls = "Parameter"

\* C20: the document of a transform T that wraps a Parameter P is P's
\* document without the keys "type" and "parameter", in P's order, followed by
\* "transform" == the class name of T; Log(parameter=Parameter(name="y",
\* initial_value=1.0)) gives {"initial_value": 1.0, "transform": "Log"}.
C20_TransformFlattened ==
    (WrapsParameter(inst) /\ inst_cfg # NoDoc) =>
        LET P == to_config(Get(inst.v, "parameter")).v
            kept == SelectSeq(P, LAMBDA p : p[1] \notin {"type", "parameter", "transform"})
        IN  /\ IsDict(inst_cfg)
            /\ Len(inst_cfg.v) = Len(kept) + 1
            /\ \A i \in 1..Len(kept) :
                   /\ inst_cfg.v[i][1] = kept[i][1]
                   /\ PyEq(inst_cfg.v[i][2], kept[i][2])
            /\ inst_cfg.v[Len(kept) + 1] = <<"transform", Str(inst.cls)>>
            /\ (inst = New("Log", << Kw("parameter",
                                        New("Parameter", << Kw("name", Str("y")),
                                                            Kw("initial_value", Num(100)) >>)) >>))
               => inst_cfg.v = << <<"initial_value", Num(100)>>, <<"transform", Str("Log")>> >>

\* Log(parameter=Parameter(name="y", initial_value=1.0)) has been converted
C20_Witness ==
    /\ WrapsParameter(inst)
    /\ inst.cls = "Log"
    /\ Get(Get(inst.v, "parameter").v, "name") = Str("y")
    /\ inst_cfg # NoDoc
    /\ Get(inst_cfg.v, "transform") = Str("Log")


\* the kinds of transform
TransformKinds == {"Log", "Exp", "Negate"}

\* a transform that wraps a transform
WrapsTransform(self) ==
    /\ IsObj(self)
    /\ Converter(self.cls) = "TransformBaseSchema"
    /\ HasKey(self.v, "parameter")
    /\ IsObj(Get(self.v, "parameter"))
    /\ Converter(Get(self.v, "parameter").cls) = "TransformBaseSchema"

\* C21 as stated: the document of a chain of transforms is one flat mapping
\* from which every transform of the chain can be told: the same chain with an
\* inner transform of another kind converts to a different document.
C21_ChainCarried ==
    (WrapsTransform(inst) /\ inst_cfg # NoDoc) =>
        /\ ~HasKey(inst_cfg.v, "parameter")
        /\ \A kind \in TransformKinds \ {Get(inst.v, "parameter").cls} :
               ~PyEq(inst_cfg,
                     to_config(New(inst.cls,
                                   << Kw("parameter",
                                         New(kind, Get(inst.v, "parameter").v)) >>)))


\* the keyword argument of the call, None when it was not given
Argument(call, key) == IF HasKey(call.args, key) THEN Get(call.args, key) ELSE Null

\* the call raised a validation error
RaisedInvalid(call) ==
    /\ call.raised # Null
    /\ call.raised.v = "ValidationError"

\* the message of what the call raised holds the text
Says(call, text) == \E i \in 1..Len(call.raised.message) : call.raised.message[i] = text

\* C22: constructing a Parameter with non-null bounds whose lower bound is
\* greater than or equal to the upper bound raises a validation error, gives no
\* instance and leaves nothing to convert; with strictly increasing or null
\* bounds the construction gives a Parameter with those bounds.
C22_BoundsValidated ==
    [][(called' # called /\ called'.op = "new" /\ called'.name = "Parameter") =>
           LET bounds == Argument(called', "bounds")
           IN  IF ~IsNull(bounds) /\ bounds.v[1].v >= bounds.v[2].v
               THEN /\ RaisedInvalid(called')
                    /\ inst' = inst
                    /\ inst_cfg' = NoDoc
               ELSE /\ called'.raised = Null
                    /\ inst'.cls = "Parameter"
                    /\ Get(inst'.v, "bounds") = bounds]_vars

\* Parameter(name="x", bounds=(1.0, 1.0)) has raised
C22_Witness ==
    /\ called.op = "new"
    /\ called.name = "Parameter"
    /\ Argument(called, "bounds") = Tuple(<<Num(100), Num(100)>>)
    /\ RaisedInvalid(called)

\* C23: constructing a DataFit succeeds exactly when one of parameters and
\* priors is non-empty; with neither the error says either 'parameters' or
\* 'priors' must be specified, with both it says only one of them can be
\* specified, and a failed construction gives no instance.
C23_ParametersOrPriors ==
    [][(called' # called /\ called'.op = "new" /\ called'.name = "DataFit") =>
           LET parameters == Truthy(Argument(called', "parameters"))
               priors == Truthy(Argument(called', "priors"))
           IN  /\ (called'.raised = Null) <=> (parameters # priors)
               /\ (called'.raised = Null) => (IsObj(inst') /\ inst'.cls = "DataFit")
               /\ (called'.raised # Null) => (RaisedInvalid(called') /\ inst' = inst)
               /\ (~parameters /\ ~priors) =>
                      /\ Says(called', "Either 'parameters' or 'priors'")
                      /\ Says(called', " must be specified")
               /\ (parameters /\ priors) =>
                      /\ Says(called', "Only one of")
                      /\ Says(called', "can be specified")]_vars

\* a DataFit call with both parameters and priors has raised
C23_Witness ==
    /\ called.op = "new"
    /\ called.name = "DataFit"
    /\ Truthy(Argument(called, "parameters"))
    /\ Truthy(Argument(called, "priors"))
    /\ RaisedInvalid(called)


\* C24 as stated: in a default document every non-null field outside the
\* exclusion set is found under its output key with its serialized value,
\* replaced neither by another field nor by the type tag; a solver config built
\* with type = "ScipySolver" has document["type"] == "ScipySolver".
C24_NoFieldLost ==
    (inst_cfg # NoDoc /\ DefaultFamily(inst)) =>
        /\ \A i \in 1..Len(inst.v) :
               (~IsNull(inst.v[i][2]) /\ inst.v[i][1] \notin _exclude_fields(inst)) =>
                   /\ HasKey(inst_cfg.v, OutputKey(inst.v[i][1]))
                   /\ PyEq(Get(inst_cfg.v, OutputKey(inst.v[i][1])),
                           _serialize_value(inst.v[i][2]))
        /\ (inst.cls = "ScipySolverConfig" /\ Get(inst.v, "type") = Str("ScipySolver")) =>
               Get(inst_cfg.v, "type") = Str("ScipySolver")


\* isinstance(value, BaseSchema)
SchemaInstance(value) == IsObj(value) /\ "BaseSchema" \in MroNames(value)

\* the value has a to_dict operation and a columns attribute
Tabular(value) == HasAttr(value, "to_dict") /\ HasAttr(value, "columns")

\* the first case of the list that matches the value; the list of the claim has
\* no case for pybamm models
FirstCase(value, models) ==
    CASE IsNull(value) -> "null"
      [] SchemaInstance(value) -> "schema"
      [] ~SchemaInstance(value) /\ value.k = "dict" -> "mapping"
      [] ~SchemaInstance(value) /\ value.k \in {"list", "tuple"} -> "sequence"
      [] ~SchemaInstance(value) /\ HasToConfig(value) -> "to_config"
      [] ~HasToConfig(value) /\ HasModelDump(value) -> "model_dump"
      [] models /\ value.k = "pybamm" -> "pybamm model"
      [] ~HasToConfig(value) /\ ~HasModelDump(value) /\ Tabular(value) -> "tabular"
      [] value.k \in {"num", "str", "bool"} -> "primitive"
      [] value.k = "array" -> "tolist"
      [] /\ HasAttr(value, "tolist")
         /\ ~HasToConfig(value) /\ ~HasModelDump(value) /\ ~Tabular(value) -> "tolist"
      [] OTHER -> "other"

\* the result is what the case gives for the value
CaseGives(case, value, result) ==
    CASE case = "null" -> result = Null
      [] case = "schema" -> result = to_config(value)
      [] case = "mapping" ->
             \/ IsRaise(result)
             \/ /\ IsDict(result)
                /\ result.id = Fresh
                /\ Keys(result.v) = Keys(value.v)
                /\ \A i \in 1..Len(value.v) : result.v[i][2] = _serialize_value(value.v[i][2])
      [] case = "sequence" ->
             \/ IsRaise(result)
             \/ /\ result.k = "list"
                /\ result.id = Fresh
                /\ Len(result.v) = Len(value.v)
                /\ \A i \in 1..Len(value.v) : result.v[i] = _serialize_value(value.v[i])
      [] case = "to_config" -> result = value.caps.to_config
      [] case = "model_dump" ->
             IF IsObj(value)
             THEN /\ IsDict(result)
                  /\ Keys(result.v) = Keys(NonNullFields(value))
             ELSE result = value.caps.model_dump
      [] case = "pybamm model" ->
             /\ IsDict(result)
             /\ Get(result.v, "type") \in {Str(value.cls), Str("custom")}
      [] case = "tabular" ->
             \/ IsRaise(result)
             \/ IsDict(result) /\ Keys(result.v) = value.caps.columns
      [] case = "primitive" -> result = value
      [] case = "tolist" ->
             /\ result.k = "list"
             /\ result.v = (IF value.k = "array" THEN value.v ELSE value.caps.tolist.v)
      [] OTHER -> result = value

\* C25 as stated: the serializer gives what the first matching case of the
\* claim's list gives, a value matching none of them being returned unchanged.
C25_Original ==
    (serialized # NoSerialized) =>
        CaseGives(FirstCase(serialized.value, FALSE), serialized.value, serialized.result)

\* C25 amended: the same, with one more case between the model_dump capability
\* and the tabular object: a pybamm model is serialized to a mapping tagged
\* with "type" (its class name for a built-in model, "custom" otherwise).  A
\* schema instance is serialized by its own to_config.
C25_FirstCase ==
    (serialized # NoSerialized) =>
        CaseGives(FirstCase(serialized.value, TRUE), serialized.value, serialized.result)

\* an object with the to_config, model_dump, tabular and tolist capabilities
\* has been serialized by its to_config
C25_Witness ==
    /\ HasAttr(serialized.value, "to_config")
    /\ HasAttr(serialized.value, "model_dump")
    /\ Tabular(serialized.value)
    /\ serialized.result = serialized.value.caps.to_config


\* C26 as stated: a value with the tabular capability, whatever library it
\* comes from, is serialized to the mapping from column name to list of
\* values by the first orientation (orient="list"); when that raises a
\* TypeError the second (as_series=False) is tried; when both fail the failure
\* propagates; the result is never a partial or empty mapping.
C26_TabularFallback ==
    ( /\ serialized # NoSerialized
      /\ Tabular(serialized.value)
      /\ ~HasToConfig(serialized.value)
      /\ ~HasModelDump(serialized.value) )
    =>  LET first == serialized.value.caps.to_dict.orient
            second == serialized.value.caps.to_dict.as_series
            result == serialized.result
        IN  /\ \/ IsRaise(result)
               \/ IsDict(result) /\ Keys(result.v) = serialized.value.caps.columns
            /\ ~IsRaise(first) => result = first
            /\ (IsRaise(first) /\ first.v = "TypeError") => result = second
            /\ (IsRaise(first) /\ first.v # "TypeError") => IsRaise(result)


\* C27: the default to_config writes a field whose value is "" (an
\* ArrheniusDiffusivityFromMSMRData built without direction and phase has
\* direction == "" and phase == "" in its document), while the document of a
\* DirectEntryFunctionSchema has no key for a field whose value is "", be it
\* the default or a given value.
C27_EmptyString ==
    (inst_cfg # NoDoc /\ IsObj(inst)) =>
        /\ DefaultFamily(inst) =>
               \A i \in 1..Len(inst.v) :
                   ( /\ inst.v[i][2] = Str("")
                     /\ inst.v[i][1] \notin _exclude_fields(inst) \cup {"type", "data", "data_input"} )
                   => /\ HasKey(inst_cfg.v, inst.v[i][1])
                      /\ Get(inst_cfg.v, inst.v[i][1]) = Str("")
        /\ (inst.cls = "ArrheniusDiffusivityFromMSMRData" /\ ~HasKey(called.args, "direction")
                /\ ~HasKey(called.args, "phase") /\ called.op = "new") =>
               /\ Get(inst_cfg.v, "direction") = Str("")
               /\ Get(inst_cfg.v, "phase") = Str("")
        /\ Converter(inst.cls) = "DirectEntryFunctionSchema" =>
               \A i \in 1..Len(inst.v) :
                   (inst.v[i][2] = Str("") /\ inst.v[i][1] # "name") =>
                       ~HasKey(inst_cfg.v, inst.v[i][1])

\* a function schema given direction="" has been converted, and its document
\* keeps the phase it was given
C27_Witness ==
    /\ inst_cfg # NoDoc
    /\ inst.cls = "ArrheniusParticleDiffusivity"
    /\ called.op = "new"
    /\ HasKey(called.args, "direction")
    /\ Get(inst.v, "direction") = Str("")
    /\ Get(inst_cfg.v, "phase") = Str("primary")


\* the document has the field's value, at the top level or among its values
Carries(doc, self, key) ==
    \/ HasKey(doc.v, key) /\ PyEq(Get(doc.v, key), Get(self.v, key))
    \/ /\ HasKey(doc.v, "values")
       /\ Get(doc.v, "values").k = "dict"
       /\ HasKey(Get(doc.v, "values").v, key)
       /\ PyEq(Get(Get(doc.v, "values").v, key), Get(self.v, key))

\* C28: the document of a PiecewiseInterpolation1D or PiecewiseInterpolation2D
\* has element_type "entry" and carries the base_parameter_name, the
\* breakpoint values and the breakpoint parameter name(s) of the instance.
C28_ConstructionData ==
    (inst_cfg # NoDoc /\ IsObj(inst)
        /\ inst.cls \in {"PiecewiseInterpolation1D", "PiecewiseInterpolation2D"}) =>
        /\ HasKey(inst_cfg.v, "element_type")
        /\ Get(inst_cfg.v, "element_type") = Str("entry")
        /\ \A i \in 1..Len(inst.v) :
               inst.v[i][1] \in {"base_parameter_name", "breakpoint_values",
                                 "breakpoint_parameter_name", "breakpoint1_values",
                                 "breakpoint1_parameter_name", "breakpoint2_values",
                                 "breakpoint2_parameter_name"}
               => Carries(inst_cfg, inst, inst.v[i][1])


\* C29: constructing an ArrayDataFit without objectives, or with
\* objectives=None, raises and gives no instance; constructing it with an
\* objectives mapping and parameters gives an ArrayDataFit whose objectives are
\* the mapping given.
C29_ObjectivesRequired ==
    [][(called' # called /\ called'.op = "new" /\ called'.name = "ArrayDataFit") =>
           LET objectives == Argument(called', "objectives")
           IN  /\ IsNull(objectives) =>
                      /\ called'.raised # Null
                      /\ inst' = inst
               /\ (objectives.k = "dict" /\ HasKey(called'.args, "parameters")) =>
                      /\ called'.raised = Null
                      /\ inst'.cls = "ArrayDataFit"
                      /\ Get(inst'.v, "objectives") = objectives]_vars


\* C30: an assignment on a Parameter or a DataFit that would break the
\* validation invariant of the class raises a validation error and leaves the
\* instance as it was, so that a Parameter or DataFit that is converted always
\* satisfies its invariant.
C30_AssignmentValidated ==
    /\ [][(called' # called /\ called'.op = "setattr"
              /\ called'.name \in {"Parameter", "DataFit"}) =>
             IF IsRaise(Validate(Obj(inst.cls, DictSet(inst.v, called'.args[1][1],
                                                       called'.args[1][2]))))
             THEN /\ RaisedInvalid(called')
                  /\ inst' = inst
             ELSE /\ called'.raised = Null
                  /\ Get(inst'.v, called'.args[1][1]) = called'.args[1][2]]_vars
    /\ []((inst_cfg # NoDoc /\ IsObj(inst) /\ inst.cls \in {"Parameter", "DataFit"}) =>
             ~IsRaise(Validate(inst)))


====
